---- MODULE Spec2Model ----
(***************************************************************************)
(* Hexagone Project Manager: the Project <-> README document codec.        *)
(*                                                                         *)
(* Text is modelled as a sequence of one-character strings, so that the    *)
(* encoder's string templates and the decoder's regular expressions work   *)
(* on the same characters as the Python code.  Characters outside ASCII    *)
(* and the backtick are written as one element named by their code point   *)
(* (U+2014, U+0060).                                                       *)
(***************************************************************************)
EXTENDS Integers, Sequences, FiniteSets, TLC

VARIABLES
    p,          \* the record handed to _generate_project_md
    files,      \* the paths for which os.path.exists answers True
    block,      \* the text of one project block
    edit,       \* the hand edit applied to the block before it is reopened
    q,          \* the records _parse_md recovered from block
    pc,         \* "start" -> "generated" (-> "edited") -> "parsed"
    projects,   \* self.projects at export time
    today,      \* the date stamped into the footer at export time
    content,    \* the document _generate_full_md returned
    parsed,     \* self.projects after _parse_md(content)
    pcAll,      \* "start" -> "exported" -> "opened"
    name,       \* a title whose slug is derived
    slug1,      \* the slug of name
    slug2,      \* the slug of slug1
    pcSlug,     \* "start" -> "once" -> "twice"
    window,        \* the window: self.projects, self.selected_index and the editor widgets
    file_path,  \* self.file_path, empty while no document is known
    staged,     \* the copies _copy_images made: source and destination under the document folder
    files2,     \* the paths that exist when the record is encoded a second time
    block2,     \* the text of the second encoding
    ref,        \* the reference handed to resolve_image_path
    resolved       \* what resolve_image_path returned

vars == <<p, files, block, edit, q, pc, projects, today, content, parsed, pcAll,
          name, slug1, slug2, pcSlug, window, file_path, staged, files2, block2,
          ref, resolved>>

\* the variables of the window, the stager, the second encoding and the resolver
sessionVars == <<window, file_path, staged, files2, block2, ref, resolved>>

----------------------------------------------------------------------------
(* Bounds of the model *)

MaxShots == 3
MaxProjects == 2
MaxPieces == 3
MaxNameLen == 3

----------------------------------------------------------------------------
(* Characters and elementary string functions of Python *)

Uppers == <<"A","B","C","D","E","F","G","H","I","J","K","L","M","N","O","P","Q","R","S","T","U","V","W","X","Y","Z">> \o <<"U+00C9">>
Lowers == <<"a","b","c","d","e","f","g","h","i","j","k","l","m","n","o","p","q","r","s","t","u","v","w","x","y","z">> \o <<"U+00E9">>
Digits == <<"0","1","2","3","4","5","6","7","8","9">>

DigitSet == {Digits[i] : i \in 1..10}
Whitespace == {" ", "\n", "\t", "\r"}
SlugChars == {Lowers[i] : i \in 1..26} \cup DigitSet \cup {"-"}

Min(s) == CHOOSE x \in s : \A y \in s : x <= y
Max(s) == CHOOSE x \in s : \A y \in s : x >= y

\* str.lower() on one character
Lower(c) ==
    IF \E i \in 1..Len(Uppers) : Uppers[i] = c
    THEN Lowers[CHOOSE i \in 1..Len(Uppers) : Uppers[i] = c]
    ELSE c

\* text[i-1:].startswith(pat), i counted from 1
StartsAt(t, i, pat) ==
    /\ i >= 1
    /\ i + Len(pat) - 1 <= Len(t)
    /\ \A k \in 1..Len(pat) : t[i + k - 1] = pat[k]

\* pat in t
Contains(t, pat) == \E i \in 1..(Len(t) - Len(pat) + 1) : StartsAt(t, i, pat)

\* t.find(pat, from-1) + 1: the first occurrence at or after from, 0 if none
Find(t, pat, from) ==
    LET occ == {i \in from..(Len(t) - Len(pat) + 1) : StartsAt(t, i, pat)}
    IN  IF occ = {} THEN 0 ELSE Min(occ)

\* the first index >= i holding a character of cs, Len(t)+1 if none
NextIn(t, i, cs) ==
    LET hit == {j \in i..Len(t) : t[j] \in cs}
    IN  IF hit = {} THEN Len(t) + 1 ELSE Min(hit)

\* the first index >= i holding a character outside cs, Len(t)+1 if none
NextNotIn(t, i, cs) ==
    LET hit == {j \in i..Len(t) : t[j] \notin cs}
    IN  IF hit = {} THEN Len(t) + 1 ELSE Min(hit)

\* t[a-1:b] of Python, inclusive 1-based bounds; empty when b < a
Slice(t, a, b) == IF b < a THEN <<>> ELSE SubSeq(t, a, b)

\* str.strip()
Strip(t) ==
    LET a == NextNotIn(t, 1, Whitespace)
        keep == {j \in 1..Len(t) : t[j] \notin Whitespace}
    IN  IF keep = {} THEN <<>> ELSE SubSeq(t, a, Max(keep))

\* str.lstrip('#')
LstripHash(t) == Slice(t, NextNotIn(t, 1, {"#"}), Len(t))

\* str.replace(' ', '-')
ReplaceSpaces(t) == [i \in 1..Len(t) |-> IF t[i] = " " THEN "-" ELSE t[i]]

\* str.lower()
LowerStr(t) == [i \in 1..Len(t) |-> Lower(t[i])]

\* Slug with the bug of keeping capital letters: the title is not lower-cased
\* and the character class lets A-Z through
SlugCaseKept(title) ==
    SelectSeq(ReplaceSpaces(title),
              LAMBDA c : c \in SlugChars \/ \E i \in 1..26 : Uppers[i] = c)

\* re.sub(r'[^a-z0-9\-]', '', title.lower().replace(' ', '-'))
Slug(title) ==
    SelectSeq(ReplaceSpaces(LowerStr(title)), LAMBDA c : c \in SlugChars)

RECURSIVE Join(_, _)
\* sep.join(parts)
Join(parts, sep) ==
    IF Len(parts) = 0 THEN <<>>
    ELSE IF Len(parts) = 1 THEN parts[1]
    ELSE parts[1] \o sep \o Join(Tail(parts), sep)

RECURSIVE IntToStr(_)
\* str(n) for an int
IntToStr(n) ==
    IF n < 0 THEN <<"-">> \o IntToStr(0 - n)
    ELSE IF n < 10 THEN <<Digits[n + 1]>>
    ELSE IntToStr(n \div 10) \o <<Digits[(n % 10) + 1]>>

DigitValue(c) == (CHOOSE i \in 1..10 : Digits[i] = c) - 1

RECURSIVE StrToInt(_)
\* int(s) for a string of decimal digits
StrToInt(ds) ==
    IF Len(ds) = 0 THEN 0
    ELSE 10 * StrToInt(SubSeq(ds, 1, Len(ds) - 1)) + DigitValue(ds[Len(ds)])

\* os.path.splitext(path)[1]: from the last dot of the last path component,
\* unless only dots precede it in that component
Splitext(path) ==
    LET seps == {i \in 1..Len(path) : path[i] = "/"}
        sepIndex == IF seps = {} THEN 0 ELSE Max(seps)
        dots == {i \in 1..Len(path) : path[i] = "."}
        dotIndex == IF dots = {} THEN 0 ELSE Max(dots)
    IN  IF dotIndex > sepIndex
           /\ \E i \in (sepIndex + 1)..(dotIndex - 1) : path[i] # "."
        THEN SubSeq(path, dotIndex, Len(path))
        ELSE <<>>

----------------------------------------------------------------------------
(* class Project *)

LinkKeys == <<"playStore", "appStore", "website", "github", "apk">>

NoLinks == [k \in {} |-> <<>>]

DefaultScreenshotSize == 200

\* Project.__init__
Project ==
    [id |-> <<>>, title |-> <<>>,
     short_description |-> <<>>, long_description |-> <<>>,
     categories |-> <<>>,
     banner_image |-> <<>>, banner_local_path |-> <<>>,
     technologies |-> <<>>, features |-> <<>>,
     links |-> NoLinks,
     screenshots |-> <<>>, screenshots_local_paths |-> <<>>,
     show_logo |-> TRUE, logo_url |-> <<>>, logo_position |-> "center",
     show_border |-> FALSE, border_style |-> "rounded",
     theme_color |-> <<"#","0","0","0","0","0","0">>,
     screenshot_layout |-> "horizontal",
     screenshot_size |-> DefaultScreenshotSize]

\* links.get(key): the value, or a falsy result when the key is missing
LinkGet(links, key) == IF key \in DOMAIN links THEN links[key] ELSE <<>>

\* Project.category_display
category_display(proj) ==
    IF proj.categories # <<>> THEN Join(proj.categories, <<","," ">>)
    ELSE <<"U+2014">>

\* os.path.exists(path)
Exists(fs, path) == path \in fs

----------------------------------------------------------------------------
(* _generate_project_md *)

NL == <<"\n">>

BorderCssRounded == <<"b","o","r","d","e","r",":"," ","1","p","x"," ","s","o","l","i","d"," ","#","e","5","e","7","e","b",";"," ","b","o","r","d","e","r","-","r","a","d","i","u","s",":"," ","1","2","p","x",";"," ","p","a","d","d","i","n","g",":"," ","2","4","p","x",";"," ","m","a","r","g","i","n",":"," ","1","6","p","x"," ","0",";">>
BorderCssSquare == <<"b","o","r","d","e","r",":"," ","1","p","x"," ","s","o","l","i","d"," ","#","e","5","e","7","e","b",";"," ","p","a","d","d","i","n","g",":"," ","2","4","p","x",";"," ","m","a","r","g","i","n",":"," ","1","6","p","x"," ","0",";">>
BorderCssDashed == <<"b","o","r","d","e","r",":"," ","2","p","x"," ","d","a","s","h","e","d"," ","#","e","5","e","7","e","b",";"," ","b","o","r","d","e","r","-","r","a","d","i","u","s",":"," ","8","p","x",";"," ","p","a","d","d","i","n","g",":"," ","2","4","p","x",";"," ","m","a","r","g","i","n",":"," ","1","6","p","x"," ","0",";">>

\* border_css of _generate_project_md
BorderCss(show_border, border_style) ==
    IF ~show_border THEN <<>>
    ELSE IF border_style = "rounded" THEN BorderCssRounded
    ELSE IF border_style = "square" THEN BorderCssSquare
    ELSE IF border_style = "dashed" THEN BorderCssDashed
    ELSE <<>>

\* the logo image tag and the blank line after it
LogoLines(proj, fs) ==
    IF proj.show_logo /\ proj.logo_url # <<>>
    THEN LET logo_path ==
                 IF Exists(fs, proj.logo_url)
                 THEN <<"i","m","a","g","e","s","/">> \o proj.id \o <<"/","l","o","g","o">> \o Splitext(proj.logo_url)
                 ELSE proj.logo_url
         IN  << <<"<","i","m","g"," ","s","r","c","=","\"">> \o logo_path \o <<"\""," ","a","l","t","=","\"">> \o proj.title
                  \o <<" ","l","o","g","o","\""," ","h","e","i","g","h","t","=","\"","6","4","\"",">">>,
                <<>> >>
    ELSE <<>>

\* the level-2 heading
TitleLines(proj) ==
    << <<"#","#"," ">> \o (IF proj.title # <<>> THEN proj.title ELSE <<"U","n","t","i","t","l","e","d">>), <<>> >>

\* one inline-code span per category, joined by spaces
CategoryLines(proj) ==
    IF proj.categories # <<>>
    THEN << Join([i \in 1..Len(proj.categories) |->
                    <<"U+0060">> \o proj.categories[i] \o <<"U+0060">>], <<" ">>),
            <<>> >>
    ELSE <<>>

\* the banner image tag
BannerLines(proj, fs) ==
    IF proj.banner_image # <<>>
    THEN LET banner_path ==
                 IF Exists(fs, proj.banner_image)
                 THEN <<"i","m","a","g","e","s","/">> \o proj.id \o <<"/","b","a","n","n","e","r">> \o Splitext(proj.banner_image)
                 ELSE proj.banner_image
         IN  << <<"<","i","m","g"," ","s","r","c","=","\"">> \o banner_path \o <<"\""," ","a","l","t","=","\"">> \o proj.title
                  \o <<"\""," ","w","i","d","t","h","=","\"","1","0","0","%","\"",">">>,
                <<>> >>
    ELSE <<>>

\* the bold short description and the long description paragraph
DescriptionLines(proj) ==
    (IF proj.short_description # <<>>
     THEN << <<"*","*">> \o proj.short_description \o <<"*","*">>, <<>> >> ELSE <<>>)
    \o
    (IF proj.long_description # <<>>
     THEN << <<"<","p",">">> \o proj.long_description \o <<"<","/","p",">">>, <<>> >> ELSE <<>>)

BadgePlayStore == <<"h","t","t","p","s",":","/","/","i","m","g",".","s","h","i","e","l","d","s",".","i","o","/","b","a","d","g","e","/","P","l","a","y","_","S","t","o","r","e","-","4","1","4","1","4","1","?","s","t","y","l","e","=","f","o","r","-","t","h","e","-","b","a","d","g","e","&","l","o","g","o","=","g","o","o","g","l","e","-","p","l","a","y","&","l","o","g","o","C","o","l","o","r","=","w","h","i","t","e">>
BadgeAppStore == <<"h","t","t","p","s",":","/","/","i","m","g",".","s","h","i","e","l","d","s",".","i","o","/","b","a","d","g","e","/","A","p","p","_","S","t","o","r","e","-","0","D","9","6","F","6","?","s","t","y","l","e","=","f","o","r","-","t","h","e","-","b","a","d","g","e","&","l","o","g","o","=","a","p","p","-","s","t","o","r","e","&","l","o","g","o","C","o","l","o","r","=","w","h","i","t","e">>
BadgeGitHub == <<"h","t","t","p","s",":","/","/","i","m","g",".","s","h","i","e","l","d","s",".","i","o","/","b","a","d","g","e","/","G","i","t","H","u","b","-","1","8","1","7","1","7","?","s","t","y","l","e","=","f","o","r","-","t","h","e","-","b","a","d","g","e","&","l","o","g","o","=","g","i","t","h","u","b","&","l","o","g","o","C","o","l","o","r","=","w","h","i","t","e">>
BadgeApk == <<"h","t","t","p","s",":","/","/","i","m","g",".","s","h","i","e","l","d","s",".","i","o","/","b","a","d","g","e","/","A","P","K","-","3","D","D","C","8","4","?","s","t","y","l","e","=","f","o","r","-","t","h","e","-","b","a","d","g","e","&","l","o","g","o","=","a","n","d","r","o","i","d","&","l","o","g","o","C","o","l","o","r","=","w","h","i","t","e">>

\* the image address of the website badge, coloured by theme_color
BadgeWebsite(theme_color) ==
    <<"h","t","t","p","s",":","/","/","i","m","g",".","s","h","i","e","l","d","s",".","i","o","/","b","a","d","g","e","/","W","e","b","s","i","t","e","-">> \o theme_color
        \o <<"?","s","t","y","l","e","=","f","o","r","-","t","h","e","-","b","a","d","g","e","&","l","o","g","o","=","s","a","f","a","r","i","&","l","o","g","o","C","o","l","o","r","=","w","h","i","t","e">>

\* one anchor-wrapped shield badge: a href=url around img src=img
Badge(url, img) ==
    <<"<","a"," ","h","r","e","f","=","\"">> \o url \o <<"\"",">","<","i","m","g"," ","s","r","c","=","\"">> \o img \o <<"\"",">","<","/","a",">">>

\* the list badges, the GitHub badge put before the website badge
BadgesGithubBeforeWebsite(proj, theme_color) ==
    LET links == proj.links
        one(key, img) ==
            IF LinkGet(links, key) # <<>> THEN << Badge(links[key], img) >> ELSE <<>>
    IN  one("playStore", BadgePlayStore)
        \o one("appStore", BadgeAppStore)
        \o one("github", BadgeGitHub)
        \o one("website", BadgeWebsite(theme_color))
        \o one("apk", BadgeApk)

\* the list badges of _generate_project_md
Badges(proj, theme_color) ==
    LET links == proj.links
        one(key, img) ==
            IF LinkGet(links, key) # <<>> THEN << Badge(links[key], img) >> ELSE <<>>
    IN  one("playStore", BadgePlayStore)
        \o one("appStore", BadgeAppStore)
        \o one("website", BadgeWebsite(theme_color))
        \o one("github", BadgeGitHub)
        \o one("apk", BadgeApk)

\* the paragraph of link badges
LinkLines(proj, theme_color) ==
    LET badges == Badges(proj, theme_color)
    IN  IF badges # <<>>
        THEN << <<"<","p",">">> >>
             \o [i \in 1..Len(badges) |-> <<" "," ">> \o badges[i]]
             \o << <<"<","/","p",">">>, <<>> >>
        ELSE <<>>

\* the Tech Stack subsection
TechLines(proj) ==
    IF proj.technologies # <<>>
    THEN << <<"#","#","#"," ","T","e","c","h"," ","S","t","a","c","k">>, <<>>, <<"<","p",">">> >>
         \o [i \in 1..Len(proj.technologies) |->
                <<" "," ","<","c","o","d","e",">">> \o proj.technologies[i] \o <<"<","/","c","o","d","e",">">>]
         \o << <<"<","/","p",">">>, <<>> >>
    ELSE <<>>

\* FeatureLines with the bug of writing the bullets with a star
FeatureLinesStarBullets(proj) ==
    IF proj.features # <<>>
    THEN << <<"#","#","#"," ","F","e","a","t","u","r","e","s">>, <<>> >>
         \o [i \in 1..Len(proj.features) |-> <<"*"," ">> \o proj.features[i]]
         \o << <<>> >>
    ELSE <<>>

\* the Features subsection
FeatureLines(proj) ==
    IF proj.features # <<>>
    THEN << <<"#","#","#"," ","F","e","a","t","u","r","e","s">>, <<>> >>
         \o [i \in 1..Len(proj.features) |-> <<"-"," ">> \o proj.features[i]]
         \o << <<>> >>
    ELSE <<>>

\* ext = os.path.splitext(ss)[1], or .png when that is empty
ShotExt(ss) == IF Splitext(ss) # <<>> THEN Splitext(ss) ELSE <<".","p","n","g">>

\* the image tag of screenshot i: images/{p.id}/{i}{ext} at width screenshot_size
ShotImg(proj, i, size) ==
    <<"<","i","m","g"," ","s","r","c","=","\"","i","m","a","g","e","s","/">> \o proj.id \o <<"/">> \o IntToStr(i)
        \o ShotExt(proj.screenshots[i]) \o <<"\""," ","w","i","d","t","h","=","\"">> \o IntToStr(size) \o <<"\"",">">>

RECURSIVE GridRowsNoFiller(_, _, _)
\* GridRows with the bug of leaving out the empty cell of an odd last row
GridRowsNoFiller(proj, i, size) ==
    LET n == Len(proj.screenshots)
        cell(j) ==
            IF i + j < n
            THEN << <<" "," "," "," ","<","t","d"," ","a","l","i","g","n","=","\"","c","e","n","t","e","r","\"",">">> \o ShotImg(proj, i + j + 1, size) \o <<"<","/","t","d",">">> >>
            ELSE <<>>
    IN  IF i >= n THEN <<>>
        ELSE << <<" "," ","<","t","r",">">> >> \o cell(0) \o cell(1) \o << <<" "," ","<","/","t","r",">">> >>
             \o GridRowsNoFiller(proj, i + 2, size)

RECURSIVE GridRows(_, _, _)
\* for i in range(0, len(screenshots_list), 2): one table row of two cells
GridRows(proj, i, size) ==
    LET n == Len(proj.screenshots)
        cell(j) ==
            IF i + j < n
            THEN <<" "," "," "," ","<","t","d"," ","a","l","i","g","n","=","\"","c","e","n","t","e","r","\"",">">> \o ShotImg(proj, i + j + 1, size) \o <<"<","/","t","d",">">>
            ELSE <<" "," "," "," ","<","t","d",">","<","/","t","d",">">>
    IN  IF i >= n THEN <<>>
        ELSE << <<" "," ","<","t","r",">">>, cell(0), cell(1), <<" "," ","<","/","t","r",">">> >>
             \o GridRows(proj, i + 2, size)

\* the Screenshots subsection in the chosen layout
ScreenshotLines(proj, layout, size) ==
    LET n == Len(proj.screenshots)
    IN  IF proj.screenshots # <<>>
        THEN << <<"#","#","#"," ","S","c","r","e","e","n","s","h","o","t","s">>, <<>> >>
             \o (IF layout = "horizontal"
                 THEN << <<"<","p",">">> >>
                      \o [i \in 1..n |-> <<" "," ">> \o ShotImg(proj, i, size)]
                      \o << <<"<","/","p",">">> >>
                 ELSE IF layout = "grid"
                 THEN << <<"<","t","a","b","l","e"," ","a","l","i","g","n","=","\"","c","e","n","t","e","r","\"",">">> >>
                      \o GridRows(proj, 0, size)
                      \o << <<"<","/","t","a","b","l","e",">">> >>
                 ELSE IF layout = "vertical"
                 THEN << <<"<","p",">">> >>
                      \o [i \in 1..n |-> <<" "," ">> \o ShotImg(proj, i, size) \o <<"<","b","r",">">>]
                      \o << <<"<","/","p",">">> >>
                 ELSE <<>>)
             \o << <<>> >>
        ELSE <<>>

\* ContentLines with the bug of leaving out the screenshots whose file
\* does not exist when the record is encoded
ContentLinesProbingShots(proj, fs) ==
    LET there == [proj EXCEPT !.screenshots = SelectSeq(@, LAMBDA ss : Exists(fs, ss))]
        screenshot_layout ==
            IF proj.screenshot_layout # "" THEN proj.screenshot_layout ELSE "horizontal"
        screenshot_size ==
            IF proj.screenshot_size # 0 THEN proj.screenshot_size ELSE DefaultScreenshotSize
        theme_color ==
            LstripHash(IF proj.theme_color # <<>> THEN proj.theme_color ELSE <<"#","0","0","0","0","0","0">>)
    IN  << <<"<","d","i","v"," ","a","l","i","g","n","=","\"","c","e","n","t","e","r","\"",">">>, <<>> >>
        \o LogoLines(proj, fs)
        \o TitleLines(proj)
        \o CategoryLines(proj)
        \o BannerLines(proj, fs)
        \o DescriptionLines(proj)
        \o LinkLines(proj, theme_color)
        \o TechLines(proj)
        \o FeatureLines(proj)
        \o ScreenshotLines(there, screenshot_layout, screenshot_size)
        \o << <<"<","/","d","i","v",">">>, <<>> >>

\* content_lines of _generate_project_md
ContentLines(proj, fs) ==
    LET screenshot_layout ==
            IF proj.screenshot_layout # "" THEN proj.screenshot_layout ELSE "horizontal"
        screenshot_size ==
            IF proj.screenshot_size # 0 THEN proj.screenshot_size ELSE DefaultScreenshotSize
        theme_color ==
            LstripHash(IF proj.theme_color # <<>> THEN proj.theme_color ELSE <<"#","0","0","0","0","0","0">>)
    IN  << <<"<","d","i","v"," ","a","l","i","g","n","=","\"","c","e","n","t","e","r","\"",">">>, <<>> >>
        \o LogoLines(proj, fs)
        \o TitleLines(proj)
        \o CategoryLines(proj)
        \o BannerLines(proj, fs)
        \o DescriptionLines(proj)
        \o LinkLines(proj, theme_color)
        \o TechLines(proj)
        \o FeatureLines(proj)
        \o ScreenshotLines(proj, screenshot_layout, screenshot_size)
        \o << <<"<","/","d","i","v",">">>, <<>> >>

\* _generate_project_md(p), with fs the files that exist at the time
generate_project_md(proj, fs) ==
    LET border_style == IF proj.border_style # "" THEN proj.border_style ELSE "rounded"
        border_css == BorderCss(proj.show_border, border_style)
        content_lines == ContentLines(proj, fs)
        lines ==
            IF proj.show_border /\ border_css # <<>>
            THEN << <<"<","d","i","v"," ","s","t","y","l","e","=","\"">> \o border_css \o <<"\"",">">>, <<>> >>
                 \o content_lines \o << <<"<","/","d","i","v",">">> >>
            ELSE content_lines
    IN  Join(lines, NL)

----------------------------------------------------------------------------
(* _generate_full_md *)

\* the fixed front matter, up to and including the rule that closes it
HeaderLines ==
    << <<"<","d","i","v"," ","a","l","i","g","n","=","\"","c","e","n","t","e","r","\"",">">>,
       <<>>,
       <<"<","i","m","g"," ","s","r","c","=","\"","i","m","a","g","e","s","/","i","c","o","n","-","d","a","r","k",".","p","n","g","\""," ","a","l","t","=","\"","H","e","x","a","g","o","n","e","\""," ","h","e","i","g","h","t","=","\"","1","2","0","\"",">">>,
       <<>>,
       <<"#"," ","H","e","x","a","g","o","n","e"," ","P","r","o","j","e","c","t","s">>,
       <<>>,
       <<"#","#","#"," ","A","b","o","u","t"," ","t","h","i","s"," ","R","e","p","o","s","i","t","o","r","y">>,
       <<>>,
       <<"T","h","i","s"," ","r","e","p","o","s","i","t","o","r","y"," ","c","o","n","t","a","i","n","s"," ","a"," ","c","o","l","l","e","c","t","i","o","n"," ","o","f"," ","p","r","o","j","e","c","t","s"," ","w","e"," ","h","a","v","e"," ","b","u","i","l","t"," ","a","c","r","o","s","s"," ","i","n","d","u","s","t","r","i","e","s"," ","i","n","c","l","u","d","i","n","g"," ","e","-","c","o","m","m","e","r","c","e",","," ","f","i","n","t","e","c","h",","," ","t","r","a","v","e","l",","," ","e","d","u","c","a","t","i","o","n",","," ","h","e","a","l","t","h","c","a","r","e",","," ","I","o","T",","," ","a","n","d"," ","l","i","f","e","s","t","y","l","e",".">>,
       <<>>,
       <<"<","p",">">>,
       <<" "," ","<","a"," ","h","r","e","f","=","\"","h","t","t","p","s",":","/","/","t","h","e","H","e","x","a","g","o","n","e",".","c","o","m","\"",">","<","i","m","g"," ","s","r","c","=","\"","h","t","t","p","s",":","/","/","i","m","g",".","s","h","i","e","l","d","s",".","i","o","/","b","a","d","g","e","/","t","h","e","H","e","x","a","g","o","n","e",".","c","o","m","-","0","0","0","0","0","0","?","s","t","y","l","e","=","f","o","r","-","t","h","e","-","b","a","d","g","e","&","l","o","g","o","=","s","a","f","a","r","i","&","l","o","g","o","C","o","l","o","r","=","w","h","i","t","e","\"",">","<","/","a",">">>,
       <<"<","/","p",">">>,
       <<>>,
       <<"<","/","d","i","v",">">>,
       <<>>,
       <<"-","-","-">>,
       <<>> >>

\* one row of the table of contents
TocRow(proj, i) ==
    LET title == IF proj.title # <<>> THEN proj.title ELSE <<"P","r","o","j","e","c","t"," ">> \o IntToStr(i)
        anchor == Slug(title)
        cat == category_display(proj)
    IN  <<"|"," ">> \o IntToStr(i) \o <<" ","|"," ","[">> \o title \o <<"]","(","#">> \o anchor
            \o <<")"," ","|"," ">> \o cat \o <<" ","|">>

\* the table of contents, emitted only for a non-empty collection
TocLines(projs) ==
    IF projs # <<>>
    THEN << <<"<","d","i","v"," ","a","l","i","g","n","=","\"","c","e","n","t","e","r","\"",">">>,
            <<>>,
            <<"#","#"," ">> \o <<"U+1F4CB">> \o <<" ","C","o","n","t","e","n","t","s">>,
            <<>>,
            <<"|"," ","#"," ","|"," ","P","r","o","j","e","c","t"," ","|"," ","C","a","t","e","g","o","r","i","e","s"," ","|">>,
            <<"|",":","-","-","-",":","|",":","-","-","-","-","-","-","-","-","-","-","|",":","-","-","-","-","-","-","-","-","-","-","-","-","|">> >>
         \o [i \in 1..Len(projs) |-> TocRow(projs[i], i)]
         \o << <<>>, <<"<","/","d","i","v",">">>, <<>>, <<"-","-","-">>, <<>> >>
    ELSE <<>>

RECURSIVE ProjectLines(_, _, _)
\* for i, p in enumerate(self.projects): the blocks, separated by hr tags
ProjectLines(projs, i, fs) ==
    IF i > Len(projs) THEN <<>>
    ELSE (IF i > 1 THEN << <<>>, <<"<","h","r",">">>, <<>> >> ELSE <<>>)
         \o << generate_project_md(projs[i], fs) >>
         \o ProjectLines(projs, i + 1, fs)

\* the footer stamped with the current date
FooterLines(date) ==
    << <<>>,
       <<"-","-","-">>,
       <<>>,
       <<"<","d","i","v"," ","a","l","i","g","n","=","\"","c","e","n","t","e","r","\"",">">>,
       <<>>,
       <<"<","s","u","b",">","L","a","s","t"," ","u","p","d","a","t","e","d",":"," ">> \o date \o <<"<","/","s","u","b",">">>,
       <<>>,
       <<"<","/","d","i","v",">">> >>

\* _generate_full_md(), with self.projects = projs and the date of the call
generate_full_md(projs, fs, date) ==
    Join(HeaderLines \o TocLines(projs) \o ProjectLines(projs, 1, fs)
            \o FooterLines(date), NL)

----------------------------------------------------------------------------
(* _parse_md: the regular expressions, each computed as re computes it *)

KnownCategories ==
    << <<"M","o","b","i","l","e"," ","A","p","p">>, <<"W","e","b","s","i","t","e">>, <<"I","o","T">>, <<"G","a","m","e">>, <<"A","I","/","M","L">>,
       <<"3","D","/","A","R","/","V","R">>, <<"O","t","h","e","r">> >>

ImageExts == << <<"p","n","g">>, <<"j","p","g">>, <<"j","p","e","g">>, <<"w","e","b","p">>, <<"g","i","f">> >>

HrTag == <<"<","h","r",">">>
RuleLine == <<"\n","-","-","-","\n">>

\* the first index >= from where the separator pattern matches, 0 if none
NextSeparator(t, from) ==
    LET hit == {i \in from..Len(t) : StartsAt(t, i, HrTag) \/ StartsAt(t, i, RuleLine)}
    IN  IF hit = {} THEN 0 ELSE Min(hit)

RECURSIVE SplitFrom(_, _)
\* re.split(r'<hr>|(?:\n---\n)', content), from index from on
SplitFrom(t, from) ==
    LET i == NextSeparator(t, from)
        width == IF StartsAt(t, i, HrTag) THEN Len(HrTag) ELSE Len(RuleLine)
    IN  IF i = 0 THEN << Slice(t, from, Len(t)) >>
        ELSE << Slice(t, from, i - 1) >> \o SplitFrom(t, i + width)

\* \s+(.+) matched at index i: the index where the group starts, 0 if no
\* match.  \s+ is greedy and gives characters back until a character other
\* than a newline follows it.
RestOfLineStart(t, i) ==
    LET e == NextNotIn(t, i, Whitespace)
        cands == {j \in (i + 1)..e : j <= Len(t) /\ t[j] # "\n"}
    IN  IF cands = {} THEN 0 ELSE Max(cands)

\* the last index of (.+) started at j: the dot stops before a newline
EndOfLine(t, j) == NextIn(t, j, {"\n"}) - 1

NoMatch == [found |-> FALSE, text |-> <<>>]

\* re.search(r'##\s+(.+)', part): group 1
TitleSearch(t) ==
    LET sites == {i \in 1..Len(t) :
                    StartsAt(t, i, <<"#","#">>) /\ RestOfLineStart(t, i + 2) # 0}
        j == RestOfLineStart(t, Min(sites) + 2)
    IN  IF sites = {} THEN NoMatch
        ELSE [found |-> TRUE, text |-> Slice(t, j, EndOfLine(t, j))]

\* open([^stop]+)close matched at index i, where close begins with stop, so
\* the greedy class must run exactly to the first stop character
DelimitedAt(t, i, open, stop, close) ==
    LET s == i + Len(open)
        e == NextIn(t, s, {stop})
    IN  StartsAt(t, i, open) /\ e > s /\ StartsAt(t, e, close)

\* re.search(open([^stop]+)close, t): group 1 of the leftmost match
DelimitedSearch(t, open, stop, close) ==
    LET sites == {i \in 1..Len(t) : DelimitedAt(t, i, open, stop, close)}
        s == Min(sites) + Len(open)
    IN  IF sites = {} THEN NoMatch
        ELSE [found |-> TRUE, text |-> Slice(t, s, NextIn(t, s, {stop}) - 1)]

RECURSIVE DelimitedFindAll(_, _, _, _, _)
\* re.findall(open([^stop]+)close, t): the groups of the successive
\* non-overlapping matches, scanning from index from
DelimitedFindAll(t, from, open, stop, close) ==
    LET sites == {i \in from..Len(t) : DelimitedAt(t, i, open, stop, close)}
        s == Min(sites) + Len(open)
        e == NextIn(t, s, {stop})
    IN  IF sites = {} THEN <<>>
        ELSE << Slice(t, s, e - 1) >>
             \o DelimitedFindAll(t, e + Len(close), open, stop, close)

\* the index after ###\s* matched at i when the word follows it, 0 otherwise
HeadingAt(t, i, word) ==
    LET w == NextNotIn(t, i + 3, Whitespace)
    IN  IF StartsAt(t, i, <<"#","#","#">>) /\ StartsAt(t, w, word) THEN w + Len(word) ELSE 0

\* re.search(r'###\s*Tech Stack.*?<p>(.*?)</p>', part, re.DOTALL): group 1
TechSection(t) ==
    LET open(i) == Find(t, <<"<","p",">">>, HeadingAt(t, i, <<"T","e","c","h"," ","S","t","a","c","k">>))
        close(i) == Find(t, <<"<","/","p",">">>, open(i) + 3)
        sites == {i \in 1..Len(t) :
                    /\ HeadingAt(t, i, <<"T","e","c","h"," ","S","t","a","c","k">>) # 0
                    /\ open(i) # 0
                    /\ close(i) # 0}
        i0 == Min(sites)
    IN  IF sites = {} THEN NoMatch
        ELSE [found |-> TRUE, text |-> Slice(t, open(i0) + 3, close(i0) - 1)]

\* re.search(r'###\s*Features(.*?)(?=###|$)', part, re.DOTALL): group 1.
\* Without re.MULTILINE, $ holds at the end of the text and before a final
\* newline.
FeaturesSection(t) ==
    LET sites == {i \in 1..Len(t) : HeadingAt(t, i, <<"F","e","a","t","u","r","e","s">>) # 0}
        s == HeadingAt(t, Min(sites), <<"F","e","a","t","u","r","e","s">>)
        stops == {e \in s..(Len(t) + 1) :
                    \/ StartsAt(t, e, <<"#","#","#">>)
                    \/ e = Len(t) + 1
                    \/ (e = Len(t) /\ t[e] = "\n")}
    IN  IF sites = {} THEN NoMatch
        ELSE [found |-> TRUE, text |-> Slice(t, s, Min(stops) - 1)]

RECURSIVE BulletFindAll(_, _)
\* re.findall(r'-\s+(.+)', t), scanning from index from
BulletFindAll(t, from) ==
    LET sites == {i \in from..Len(t) :
                    t[i] = "-" /\ RestOfLineStart(t, i + 1) # 0}
        j == RestOfLineStart(t, Min(sites) + 1)
        e == EndOfLine(t, j)
    IN  IF sites = {} THEN <<>>
        ELSE << Slice(t, j, e) >> \o BulletFindAll(t, e + 1)

HrefOpen == <<"h","r","e","f","=","\"">>

\* re.search(r'href="(prefix[^"]+)"', part): group 1
HrefSearch(t, prefix) ==
    LET at(i) ==
            LET u == i + Len(HrefOpen) + Len(prefix)
                e == NextIn(t, u, {"\""})
            IN  StartsAt(t, i, HrefOpen \o prefix) /\ e > u /\ e <= Len(t)
        sites == {i \in 1..Len(t) : at(i)}
        s == Min(sites) + Len(HrefOpen)
    IN  IF sites = {} THEN NoMatch
        ELSE [found |-> TRUE, text |-> Slice(t, s, NextIn(t, s, {"\""}) - 1)]

\* re.search(r'href="([^"]+)"[^>]*>\s*<img[^>]*label', part): group 1
BadgeSearch(t, label) ==
    LET at(i) ==
            LET s == i + Len(HrefOpen)
                e == NextIn(t, s, {"\""})
                g == NextIn(t, e + 1, {">"})
                w == NextNotIn(t, g + 1, Whitespace)
                r == NextIn(t, w + 4, {">"})
            IN  /\ StartsAt(t, i, HrefOpen)
                /\ e > s /\ e <= Len(t)
                /\ g <= Len(t)
                /\ StartsAt(t, w, <<"<","i","m","g">>)
                /\ \E k \in (w + 4)..(r - Len(label)) : StartsAt(t, k, label)
        sites == {i \in 1..Len(t) : at(i)}
        s == Min(sites) + Len(HrefOpen)
    IN  IF sites = {} THEN NoMatch
        ELSE [found |-> TRUE, text |-> Slice(t, s, NextIn(t, s, {"\""}) - 1)]

\* images/[^/]+/(\d+)\.(png|jpg|jpeg|webp|gif) matched at index i: the index
\* of the dot after the number, 0 if no match
ShotDotAt(t, i) ==
    LET a == i + 7
        b == NextIn(t, a, {"/"})
        d == NextNotIn(t, b + 1, DigitSet)
    IN  IF /\ StartsAt(t, i, <<"i","m","a","g","e","s","/">>)
           /\ b > a /\ b <= Len(t)
           /\ d > b + 1 /\ d <= Len(t) /\ t[d] = "."
           /\ \E x \in 1..Len(ImageExts) : StartsAt(t, d + 1, ImageExts[x])
        THEN d ELSE 0

RECURSIVE ShotFindAll(_, _)
\* re.findall of the screenshot pattern, each (num, ext) already formatted
\* as screenshot_{num}.{ext}
ShotFindAll(t, from) ==
    LET sites == {i \in from..Len(t) : ShotDotAt(t, i) # 0}
        i0 == Min(sites)
        d == ShotDotAt(t, i0)
        b == NextIn(t, i0 + 7, {"/"})
        ext == ImageExts[Min({x \in 1..Len(ImageExts) : StartsAt(t, d + 1, ImageExts[x])})]
    IN  IF sites = {} THEN <<>>
        ELSE << <<"s","c","r","e","e","n","s","h","o","t","_">> \o Slice(t, b + 1, d - 1) \o <<".">> \o ext >>
             \o ShotFindAll(t, d + 1 + Len(ext))

ImgOpen == <<"<","i","m","g"," ","s","r","c","=","\"">>
AltOpen == <<"a","l","t","=","\"">>

\* <img src="([^"]+)"[^>]*alt="[^"]*tail"[^>]*attr searched in t: group 1.
\* tail is the text the alt value must end with (empty for the banner).
ImgSearch(t, tail, attr) ==
    LET at(i) ==
            LET s == i + Len(ImgOpen)
                e == NextIn(t, s, {"\""})
                altOk(a) ==
                    LET c == NextIn(t, a + Len(AltOpen), {"\""})
                    IN  /\ StartsAt(t, a, AltOpen)
                        /\ NextIn(t, e + 1, {">"}) >= a
                        /\ c <= Len(t)
                        /\ c - Len(tail) >= a + Len(AltOpen)
                        /\ StartsAt(t, c - Len(tail), tail)
                        /\ \E k \in (c + 1)..Len(t) :
                              StartsAt(t, k, attr) /\ NextIn(t, c + 1, {">"}) >= k
            IN  /\ StartsAt(t, i, ImgOpen)
                /\ e > s /\ e <= Len(t)
                /\ \E a \in (e + 1)..Len(t) : altOk(a)
        sites == {i \in 1..Len(t) : at(i)}
        s == Min(sites) + Len(ImgOpen)
    IN  IF sites = {} THEN NoMatch
        ELSE [found |-> TRUE, text |-> Slice(t, s, NextIn(t, s, {"\""}) - 1)]

\* WidthSearch with the bug of not asking for the quote that closes the
\* number, so that a width in percent is taken for one in pixels
WidthSearchAnyUnit(t) ==
    LET at(i) ==
            LET s == i + 7
                d == NextNotIn(t, s, DigitSet)
            IN  StartsAt(t, i, <<"w","i","d","t","h","=","\"">>) /\ d > s
        sites == {i \in 1..Len(t) : at(i)}
        s == Min(sites) + 7
    IN  IF sites = {} THEN NoMatch
        ELSE [found |-> TRUE, text |-> Slice(t, s, NextNotIn(t, s, DigitSet) - 1)]

\* re.search(r'width="(\d+)"', part): group 1
WidthSearch(t) ==
    LET at(i) ==
            LET s == i + 7
                d == NextNotIn(t, s, DigitSet)
            IN  StartsAt(t, i, <<"w","i","d","t","h","=","\"">>) /\ d > s /\ d <= Len(t) /\ t[d] = "\""
        sites == {i \in 1..Len(t) : at(i)}
        s == Min(sites) + 7
    IN  IF sites = {} THEN NoMatch
        ELSE [found |-> TRUE, text |-> Slice(t, s, NextNotIn(t, s, DigitSet) - 1)]

----------------------------------------------------------------------------
(* _parse_md: the body of the loop over the parts, and the loop *)

\* the links found in a part: each key is set only when its pattern matches
ParseLinks(part) ==
    LET play == HrefSearch(part, <<"h","t","t","p","s",":","/","/","p","l","a","y",".","g","o","o","g","l","e",".","c","o","m">>)
        app == HrefSearch(part, <<"h","t","t","p","s",":","/","/","a","p","p","s",".","a","p","p","l","e",".","c","o","m">>)
        hub == HrefSearch(part, <<"h","t","t","p","s",":","/","/","g","i","t","h","u","b",".","c","o","m">>)
        website_match == BadgeSearch(part, <<"W","e","b","s","i","t","e">>)
        apk_match == BadgeSearch(part, <<"A","P","K">>)
        set(links, cond, key, m) ==
            IF cond /\ m.found
            THEN [k \in (DOMAIN links) \cup {key} |->
                    IF k = key THEN m.text ELSE links[k]]
            ELSE links
        l1 == set(NoLinks, Contains(part, <<"p","l","a","y",".","g","o","o","g","l","e",".","c","o","m">>), "playStore", play)
        l2 == set(l1, Contains(part, <<"a","p","p","s",".","a","p","p","l","e",".","c","o","m">>), "appStore", app)
        l3 == set(l2, Contains(part, <<"g","i","t","h","u","b",".","c","o","m">>), "github", hub)
        l4 == set(l3, TRUE, "website", website_match)
    IN  set(l4, TRUE, "apk", apk_match)

\* ParseBorder with the bug of inferring the style also when no border
\* marker is in the part
ParseBorderUnguarded(part) ==
    [show |-> Contains(part, <<"b","o","r","d","e","r",":"," ","1","p","x"," ","s","o","l","i","d">>) \/ Contains(part, <<"b","o","r","d","e","r",":"," ","2","p","x"," ","d","a","s","h","e","d">>),
     style |-> IF Contains(part, <<"b","o","r","d","e","r","-","r","a","d","i","u","s",":"," ","1","2","p","x">>) THEN "rounded"
               ELSE IF Contains(part, <<"d","a","s","h","e","d">>) THEN "dashed"
               ELSE "square"]

\* the border fields inferred from the marker texts
ParseBorder(part) ==
    IF Contains(part, <<"b","o","r","d","e","r",":"," ","1","p","x"," ","s","o","l","i","d">>) \/ Contains(part, <<"b","o","r","d","e","r",":"," ","2","p","x"," ","d","a","s","h","e","d">>)
    THEN [show |-> TRUE,
          style |-> IF Contains(part, <<"b","o","r","d","e","r","-","r","a","d","i","u","s",":"," ","1","2","p","x">>) THEN "rounded"
                    ELSE IF Contains(part, <<"d","a","s","h","e","d">>) THEN "dashed"
                    ELSE "square"]
    ELSE [show |-> Project.show_border, style |-> Project.border_style]

\* ParseLayout with the bug of not asking for a line break before it
\* answers vertical
ParseLayoutNoBreak(part) ==
    IF Contains(part, <<"<","t","a","b","l","e">>) THEN "grid"
    ELSE IF Contains(part, <<"a","l","i","g","n","=","\"","c","e","n","t","e","r","\"">>) THEN "vertical"
    ELSE "horizontal"

\* the screenshot layout inferred from the markup
ParseLayout(part) ==
    IF Contains(part, <<"<","t","a","b","l","e">>) THEN "grid"
    ELSE IF Contains(part, <<"a","l","i","g","n","=","\"","c","e","n","t","e","r","\"">>) /\ Contains(part, <<"<","b","r",">">>)
    THEN "vertical"
    ELSE "horizontal"

\* the title: group 1 of the heading pattern, stripped
ParseTitle(part) ==
    LET m == TitleSearch(part)
    IN  IF m.found THEN Strip(m.text) ELSE Project.title

\* the id: the slug of the title, set only when the heading pattern matched
ParseId(part) ==
    IF TitleSearch(part).found THEN Slug(ParseTitle(part)) ELSE Project.id

\* ParseCategories with the bug of keeping every inline-code span
ParseCategoriesUnfiltered(part) ==
    DelimitedFindAll(part, 1, <<"U+0060">>, "U+0060", <<"U+0060">>)

\* the inline-code spans that are known categories
ParseCategories(part) ==
    LET category_matches ==
            DelimitedFindAll(part, 1, <<"U+0060">>, "U+0060", <<"U+0060">>)
    IN  SelectSeq(category_matches,
                  LAMBDA c : \E x \in 1..Len(KnownCategories) : KnownCategories[x] = c)

\* the first bold span
ParseShortDescription(part) ==
    LET m == DelimitedSearch(part, <<"*","*">>, "*", <<"*","*">>)
    IN  IF m.found THEN Strip(m.text) ELSE Project.short_description

\* the first paragraph of plain text
ParseLongDescription(part) ==
    LET m == DelimitedSearch(part, <<"<","p",">">>, "<", <<"<","/","p",">">>)
        group0 == <<"<","p",">">> \o m.text \o <<"<","/","p",">">>
    IN  IF /\ m.found
           /\ ~Contains(group0, <<"<","a"," ","h","r","e","f">>)
           /\ ~Contains(group0, <<"<","i","m","g">>)
        THEN Strip(m.text) ELSE Project.long_description

\* the code tags of the Tech Stack paragraph
ParseTechnologies(part) ==
    LET tech_section == TechSection(part)
    IN  IF tech_section.found
        THEN DelimitedFindAll(tech_section.text, 1, <<"<","c","o","d","e",">">>, "<", <<"<","/","c","o","d","e",">">>)
        ELSE Project.technologies

\* the bullets of the Features section
ParseFeatures(part) ==
    LET features_section == FeaturesSection(part)
    IN  IF features_section.found
        THEN BulletFindAll(features_section.text, 1)
        ELSE Project.features

\* the synthetic names of the numbered image paths
ParseScreenshots(part) == Project.screenshots \o ShotFindAll(part, 1)

\* the image tag with the full-width marker
ParseBanner(part) ==
    LET banner_match == ImgSearch(part, <<>>, <<"w","i","d","t","h","=","\"","1","0","0","%","\"">>)
    IN  IF banner_match.found THEN banner_match.text ELSE Project.banner_image

\* the image tag with the logo alt text and height
ParseLogo(part) ==
    LET logo_match == ImgSearch(part, <<"l","o","g","o">>, <<"h","e","i","g","h","t","=","\"","6","4","\"">>)
    IN  IF logo_match.found
        THEN [url |-> logo_match.text, show |-> TRUE]
        ELSE [url |-> Project.logo_url, show |-> Project.show_logo]

\* ParseSize with the bug of taking the first number of pixels of the block,
\* whatever it measures
ParseSizeAnyPixels(part) ==
    LET sites == {i \in 1..Len(part) :
                    part[i] \in DigitSet
                    /\ (i = 1 \/ part[i - 1] \notin DigitSet)
                    /\ StartsAt(part, NextNotIn(part, i, DigitSet), <<"p","x">>)}
        s == Min(sites)
    IN  IF sites = {} THEN Project.screenshot_size
        ELSE StrToInt(Slice(part, s, NextNotIn(part, s, DigitSet) - 1))

\* the first pixel width
ParseSize(part) ==
    LET size_match == WidthSearch(part)
    IN  IF size_match.found THEN StrToInt(size_match.text)
        ELSE Project.screenshot_size

\* the record built from one part that contains a level-2 heading marker
DecodeProject(part) ==
    [Project EXCEPT
        !.title = ParseTitle(part),
        !.id = ParseId(part),
        !.categories = ParseCategories(part),
        !.short_description = ParseShortDescription(part),
        !.long_description = ParseLongDescription(part),
        !.technologies = ParseTechnologies(part),
        !.features = ParseFeatures(part),
        !.links = ParseLinks(part),
        !.screenshots = ParseScreenshots(part),
        !.screenshots_local_paths = ParseScreenshots(part),
        !.banner_image = ParseBanner(part),
        !.logo_url = ParseLogo(part).url,
        !.show_logo = ParseLogo(part).show,
        !.show_border = ParseBorder(part).show,
        !.border_style = ParseBorder(part).style,
        !.screenshot_layout = ParseLayout(part),
        !.screenshot_size = ParseSize(part)]

RECURSIVE ParseParts(_, _)
\* for part in parts: skip a part without the heading marker, keep a
\* record only if a title was recovered
ParseParts(parts, i) ==
    IF i > Len(parts) THEN <<>>
    ELSE LET part == parts[i]
             rec == DecodeProject(part)
         IN  (IF Contains(part, <<"#","#"," ">>) /\ rec.title # <<>> THEN << rec >> ELSE <<>>)
             \o ParseParts(parts, i + 1)

\* _parse_md(content): the new value of self.projects
parse_md(text) == ParseParts(SplitFrom(text, 1), 1)

----------------------------------------------------------------------------
(* The records the editor can hand to the encoder *)

\* the five keys _save_current always writes, each empty
EmptyLinks == [k \in {LinkKeys[i] : i \in 1..Len(LinkKeys)} |-> <<>>]

\* a record as _save_current leaves it: title, id and the five link keys set
Base == [Project EXCEPT !.id = <<"d","e","m","o">>, !.title = <<"D","e","m","o">>, !.links = EmptyLinks]

RECURSIVE SeqsUpTo(_, _)
\* the sequences of at most n elements of the set s
SeqsUpTo(s, n) ==
    IF n = 0 THEN { <<>> }
    ELSE LET shorter == SeqsUpTo(s, n - 1)
         IN  shorter \cup {Append(x, y) : x \in {z \in shorter : Len(z) = n - 1}, y \in s}

PlayUrl == <<"h","t","t","p","s",":","/","/","p","l","a","y",".","g","o","o","g","l","e",".","c","o","m","/","s","t","o","r","e","/","a","p","p","s","/","d","e","t","a","i","l","s","?","i","d","=","c","o","m",".","h","e","x","a","g","o","n","e",".","d","e","m","o">>
AppUrl == <<"h","t","t","p","s",":","/","/","a","p","p","s",".","a","p","p","l","e",".","c","o","m","/","a","p","p","/","d","e","m","o","/","i","d","1","2","3","4","5","6">>
SiteUrl == <<"h","t","t","p","s",":","/","/","d","e","m","o",".","e","x","a","m","p","l","e",".","c","o","m">>
GithubUrl == <<"h","t","t","p","s",":","/","/","g","i","t","h","u","b",".","c","o","m","/","h","e","x","a","g","o","n","e","/","d","e","m","o">>
ApkUrl == <<"h","t","t","p","s",":","/","/","d","e","m","o",".","e","x","a","m","p","l","e",".","c","o","m","/","a","p","p",".","a","p","k">>

CanonicalLinks ==
    [k \in DOMAIN EmptyLinks |->
        CASE k = "playStore" -> PlayUrl
          [] k = "appStore" -> AppUrl
          [] k = "website" -> SiteUrl
          [] k = "github" -> GithubUrl
          [] k = "apk" -> ApkUrl]

TechChoices == { <<>>, << <<"R","u","s","t">> >>, << <<"I","o","T">>, <<"G","a","m","e">> >> }
FeatureChoices ==
    { <<>>, << <<"F","a","s","t">> >>, << <<"O","f","f","l","i","n","e"," ","m","o","d","e">>, <<"R","e","a","l","-","t","i","m","e"," ","s","y","n","c"," ","-"," ","b","e","t","a">> >> }

\* records that use the text fields, with and without badges and border
TextRecords ==
    { [Base EXCEPT !.title = t[1], !.id = t[2],
                   !.short_description = sd, !.long_description = ld,
                   !.technologies = te, !.features = fe, !.links = li,
                   !.show_border = sb] :
        t \in { << <<"D","e","m","o">>, <<"d","e","m","o">> >>, << <<"M","y"," ","A","p","p"," ","2">>, <<"m","y","-","a","p","p","-","2">> >> },
        sd \in { <<>>, <<"F","a","s","t"," ","a","n","d"," ","s","i","m","p","l","e">> },
        ld \in { <<>>, <<"A"," ","l","o","n","g","e","r"," ","t","e","x","t",","," ","w","i","t","h"," ","c","o","m","m","a","s"," ","-"," ","a","n","d"," ","d","a","s","h","e","s",".">> },
        te \in TechChoices, fe \in FeatureChoices,
        li \in { EmptyLinks, CanonicalLinks },
        sb \in BOOLEAN }

\* the checked categories, in the order of the check boxes
CategoriesOf(chosen) ==
    SelectSeq(KnownCategories,
              LAMBDA c : \E x \in chosen : KnownCategories[x] = c)

\* records with every combination of categories
CategoryRecords ==
    { [Base EXCEPT !.categories = CategoriesOf(chosen), !.technologies = te] :
        chosen \in SUBSET (1..Len(KnownCategories)),
        te \in { <<>>, << <<"I","o","T">>, <<"G","a","m","e">> >> } }

\* records with each link empty, on its store's host, or on GitHub
LinkRecords ==
    { [Base EXCEPT !.links = li] :
        li \in { f \in [DOMAIN EmptyLinks -> { <<>>, PlayUrl, AppUrl, SiteUrl, GithubUrl, ApkUrl }] :
                    \A k \in DOMAIN f : f[k] \in { <<>>, CanonicalLinks[k], GithubUrl } } }

Sizes == { 1, 64, 200, 1080 }
Layouts == { "horizontal", "grid", "vertical" }
BorderStyles == { "rounded", "square", "dashed" }

\* records with every styling choice, with no screenshot and with one
StyleRecords ==
    { [Base EXCEPT !.screenshot_layout = la, !.screenshot_size = sz,
                   !.show_border = bo[1], !.border_style = bo[2],
                   !.short_description = sd,
                   !.screenshots = sh, !.screenshots_local_paths = sh] :
        la \in Layouts, sz \in Sizes,
        bo \in ({ FALSE, TRUE } \X BorderStyles),
        sd \in { <<>>, <<"D","r","a","w","s"," ","d","a","s","h","e","d"," ","l","i","n","e","s">> },
        sh \in { <<>>, << <<"/","h","o","m","e","/","m","e","/","s","h","o","t","s","/","h","o","m","e",".","p","n","g">> >> } }

ShotRefs ==
    { <<"/","h","o","m","e","/","m","e","/","s","h","o","t","s","/","h","o","m","e",".","p","n","g">>, <<"/","h","o","m","e","/","m","e","/","s","h","o","t","s","/","l","o","g","i","n",".","j","p","e","g">>,
      <<"/","h","o","m","e","/","m","e","/","s","h","o","t","s","/","r","a","w">>, <<"/","h","o","m","e","/","m","e","/","s","h","o","t","s","/","P","h","o","t","o",".","P","N","G">> }

\* records with up to MaxShots screenshots, in each layout
ShotRecords ==
    { [Base EXCEPT !.screenshot_layout = la,
                   !.screenshots = sh, !.screenshots_local_paths = sh] :
        la \in Layouts, sh \in SeqsUpTo(ShotRefs, MaxShots) }

LocalBanner == <<"/","h","o","m","e","/","m","e","/","a","r","t","/","b","a","n","n","e","r",".","j","p","g">>
LocalLogo == <<"/","h","o","m","e","/","m","e","/","a","r","t","/","l","o","g","o",".","p","n","g">>

\* records with a banner and a logo, given as a URL or as a local file
ImageRecords ==
    { [Base EXCEPT !.banner_image = ba, !.logo_url = lo, !.screenshot_layout = la,
                   !.screenshots = sh, !.screenshots_local_paths = sh] :
        ba \in { <<>>, <<"h","t","t","p","s",":","/","/","c","d","n",".","e","x","a","m","p","l","e",".","c","o","m","/","d","e","m","o","/","b","a","n","n","e","r",".","w","e","b","p">>, LocalBanner },
        lo \in { <<>>, <<"h","t","t","p","s",":","/","/","c","d","n",".","e","x","a","m","p","l","e",".","c","o","m","/","d","e","m","o","/","l","o","g","o",".","s","v","g">>, LocalLogo },
        la \in Layouts,
        sh \in { <<>>, << <<"/","h","o","m","e","/","m","e","/","s","h","o","t","s","/","h","o","m","e",".","p","n","g">> >> } }

Records ==
    TextRecords \cup CategoryRecords \cup LinkRecords \cup StyleRecords
        \cup ShotRecords \cup ImageRecords

----------------------------------------------------------------------------
(* Hand edits of an exported block: a line of pieces put before or after it *)

Pieces ==
    { [kind |-> "span", text |-> <<"M","o","b","i","l","e"," ","A","p","p">>],
      [kind |-> "span", text |-> <<"N","o","n","e","x","i","s","t","e","n","t">>],
      [kind |-> "code", text |-> <<"I","o","T">>],
      [kind |-> "plain", text |-> <<"G","a","m","e">> ] }

\* the characters of one piece: an inline-code span, a code tag, or bare text
PieceText(piece) ==
    CASE piece.kind = "span" -> <<"U+0060">> \o piece.text \o <<"U+0060">>
      [] piece.kind = "code" -> <<"<","c","o","d","e",">">> \o piece.text \o <<"<","/","c","o","d","e",">">>
      [] piece.kind = "plain" -> piece.text

\* the edited line: the pieces separated by spaces
EditLine(pieces) == Join([i \in 1..Len(pieces) |-> PieceText(pieces[i])], <<" ">>)

NoEdit == [where |-> "none", pieces |-> <<>>]

Edits ==
    { [where |-> w, pieces |-> ps] :
        w \in { "top", "bottom" }, ps \in SeqsUpTo(Pieces, MaxPieces) \ { <<>> } }

\* the records whose blocks are hand edited
EditedRecords ==
    { [Base EXCEPT !.categories = ca, !.technologies = te] :
        ca \in { <<>>, << <<"G","a","m","e">>, <<"O","t","h","e","r">> >> },
        te \in { <<>>, << <<"I","o","T">>, <<"G","a","m","e">> >> } }

----------------------------------------------------------------------------
(* The collections that are exported as one document *)

Dates == { <<"N","o","v","e","m","b","e","r"," ","0","4",","," ","2","0","2","6">>, <<"M","a","y"," ","1","7",","," ","2","0","2","5">> }

DocRecords ==
    { [Base EXCEPT !.categories = << <<"G","a","m","e">> >>, !.technologies = << <<"R","u","s","t">> >>,
                   !.features = << <<"F","a","s","t">> >>,
                   !.screenshots = << <<"a",".","p","n","g">> >>,
                   !.screenshots_local_paths = << <<"a",".","p","n","g">> >>],
      [Base EXCEPT !.title = <<"M","y"," ","A","p","p"," ","2">>, !.id = <<"m","y","-","a","p","p","-","2">>,
                   !.short_description = <<"F","a","s","t"," ","a","n","d"," ","s","i","m","p","l","e">>],
      [Base EXCEPT !.title = <<"W","i","-","F","i"," ","T","o","o","l">>, !.id = <<"w","i","-","f","i","-","t","o","o","l">>,
                   !.links = CanonicalLinks,
                   !.show_border = TRUE, !.border_style = "dashed"],
      [Base EXCEPT !.title = <<"A","t","l","a","s">>, !.id = <<"a","t","l","a","s">>,
                   !.long_description = <<"M","a","p","s"," ","f","o","r"," ","e","v","e","r","y","o","n","e",".">>,
                   !.features = << <<"O","f","f","l","i","n","e"," ","m","o","d","e">>, <<"R","o","u","t","i","n","g">> >>],
      [Base EXCEPT !.title = <<>>, !.id = <<>>] }

----------------------------------------------------------------------------
(* Titles whose slug is derived *)

NameChars == { "a", "Z", "7", "-", " ", "!", "_", "U+00C9" }

----------------------------------------------------------------------------
(* The editor window: class ProjectManagerApp *)

\* the value None of self.selected_index; the indexes themselves count from 0
None == -1

\* os.path.basename(path)
Basename(path) ==
    LET seps == {i \in 1..Len(path) : path[i] = "/"}
    IN  IF seps = {} THEN path ELSE Slice(path, Max(seps) + 1, Len(path))

\* the line the screenshots listbox shows for a path: filename, two spaces, (path)
ListboxItem(path) == Basename(path) \o <<" "," ","(">> \o path \o <<")">>

\* t.rstrip(")")
RstripParen(t) ==
    LET keep == {i \in 1..Len(t) : t[i] # ")"}
    IN  IF keep = {} THEN <<>> ELSE Slice(t, 1, Max(keep))

\* the path recovered from a listbox line: item.split("(")[-1].rstrip(")")
\* when the line holds both parentheses, the whole line otherwise
ListboxPath(item) ==
    LET opens == {i \in 1..Len(item) : item[i] = "("}
    IN  IF opens # {} /\ \E i \in 1..Len(item) : item[i] = ")"
        THEN RstripParen(Slice(item, Max(opens) + 1, Len(item)))
        ELSE item

\* the part of a listbox line before the two spaces: the file name shown
ListboxName(item) == Slice(item, 1, Find(item, <<" "," ","(">>, 1) - 1)

\* SavedScreenshots with the bug of storing the displayed file name as the
\* screenshot and the path as its local path
SavedScreenshotsByName(items) ==
    [screenshots |-> [i \in 1..Len(items) |-> ListboxName(items[i])],
     screenshots_local_paths |-> [i \in 1..Len(items) |-> ListboxPath(items[i])]]

\* the two lists _save_current rebuilds from the screenshots listbox
SavedScreenshots(items) ==
    [screenshots |-> [i \in 1..Len(items) |-> ListboxPath(items[i])],
     screenshots_local_paths |-> [i \in 1..Len(items) |-> ListboxPath(items[i])]]

\* int(self.screenshot_size_var.get()), 200 when that raises
SizeVarValue(t) ==
    LET s == Strip(t)
    IN  IF s # <<>> /\ \A i \in 1..Len(s) : s[i] \in DigitSet
        THEN StrToInt(s) ELSE DefaultScreenshotSize

\* the widgets as _build_ui creates them
EmptyForm ==
    [id_entry |-> <<>>, title_entry |-> <<>>, category_vars |-> {},
     short_desc_entry |-> <<>>, long_desc_text |-> <<>>,
     tech_listbox |-> <<>>, features_listbox |-> <<>>,
     link_playstore |-> <<>>, link_appstore |-> <<>>, link_website |-> <<>>,
     link_github |-> <<>>, link_apk |-> <<>>,
     banner_entry |-> <<>>, screenshots_listbox |-> <<>>,
     show_logo_var |-> TRUE, logo_url_entry |-> <<>>, logo_position_var |-> "center",
     show_border_var |-> FALSE, border_style_var |-> "rounded",
     screenshot_layout_var |-> "horizontal", screenshot_size_var |-> <<"2","0","0">>,
     theme_color_entry |-> <<>>]

\* _load_project(p): the widgets after the record is shown
load_project(proj) ==
    [id_entry |-> proj.id, title_entry |-> proj.title,
     category_vars |->
        {i \in 1..Len(KnownCategories) :
            \E j \in 1..Len(proj.categories) : proj.categories[j] = KnownCategories[i]},
     short_desc_entry |-> proj.short_description,
     long_desc_text |-> proj.long_description,
     tech_listbox |-> proj.technologies, features_listbox |-> proj.features,
     link_playstore |-> LinkGet(proj.links, "playStore"),
     link_appstore |-> LinkGet(proj.links, "appStore"),
     link_website |-> LinkGet(proj.links, "website"),
     link_github |-> LinkGet(proj.links, "github"),
     link_apk |-> LinkGet(proj.links, "apk"),
     banner_entry |-> proj.banner_image,
     screenshots_listbox |->
        [i \in 1..Len(proj.screenshots) |->
            ListboxItem(IF i <= Len(proj.screenshots_local_paths)
                        THEN proj.screenshots_local_paths[i]
                        ELSE proj.screenshots[i])],
     show_logo_var |-> proj.show_logo, logo_url_entry |-> proj.logo_url,
     logo_position_var |-> IF proj.logo_position # "" THEN proj.logo_position ELSE "left",
     show_border_var |-> proj.show_border,
     border_style_var |-> IF proj.border_style # "" THEN proj.border_style ELSE "rounded",
     screenshot_layout_var |->
        IF proj.screenshot_layout # "" THEN proj.screenshot_layout ELSE "horizontal",
     screenshot_size_var |->
        IntToStr(IF proj.screenshot_size # 0 THEN proj.screenshot_size ELSE DefaultScreenshotSize),
     theme_color_entry |->
        IF proj.theme_color # <<>> THEN proj.theme_color ELSE <<"#","0","0","0","0","0","0">>]

\* the record _save_current writes over proj from the widgets
SavedProject(proj, form, fs) ==
    LET shots == SavedScreenshots(form.screenshots_listbox)
        banner == Strip(form.banner_entry)
    IN  [proj EXCEPT
            !.id = Strip(form.id_entry),
            !.title = Strip(form.title_entry),
            !.categories = CategoriesOf(form.category_vars),
            !.short_description = Strip(form.short_desc_entry),
            !.long_description = Strip(form.long_desc_text),
            !.technologies = form.tech_listbox,
            !.features = form.features_listbox,
            !.links = [k \in DOMAIN EmptyLinks |->
                          CASE k = "playStore" -> Strip(form.link_playstore)
                            [] k = "appStore" -> Strip(form.link_appstore)
                            [] k = "website" -> Strip(form.link_website)
                            [] k = "github" -> Strip(form.link_github)
                            [] k = "apk" -> Strip(form.link_apk)],
            !.banner_image = banner,
            !.banner_local_path = IF Exists(fs, banner) THEN banner ELSE proj.banner_local_path,
            !.screenshots = shots.screenshots,
            !.screenshots_local_paths = shots.screenshots_local_paths,
            !.show_logo = form.show_logo_var,
            !.logo_url = Strip(form.logo_url_entry),
            !.logo_position = form.logo_position_var,
            !.show_border = form.show_border_var,
            !.border_style = form.border_style_var,
            !.screenshot_layout = form.screenshot_layout_var,
            !.screenshot_size = SizeVarValue(form.screenshot_size_var),
            !.theme_color = Strip(form.theme_color_entry)]

\* _save_current(): self.projects afterwards
save_current(a, fs) ==
    IF a.selected_index = None \/ a.selected_index >= Len(a.projects)
    THEN a.projects
    ELSE [a.projects EXCEPT ![a.selected_index + 1] = SavedProject(@, a.form, fs)]

\* the record _add_project creates as number n of the collection
NewProject(n) ==
    [Project EXCEPT !.title = <<"N","e","w"," ","P","r","o","j","e","c","t"," ">> \o IntToStr(n),
                    !.id = <<"n","e","w","-","p","r","o","j","e","c","t","-">> \o IntToStr(n)]

\* the window after ProjectManagerApp.__init__
NewApp ==
    [projects |-> <<>>, selected_index |-> None, form |-> EmptyForm,
     has_changes |-> FALSE, destroyed |-> FALSE, last |-> "init", steps |-> 0]

----------------------------------------------------------------------------
(* Paths, the asset stager and the preview's image resolver *)

\* os.path.dirname(path)
Dirname(path) ==
    LET seps == {i \in 1..Len(path) : path[i] = "/"}
    IN  IF seps = {} THEN <<>>
        ELSE IF Max(seps) = 1 THEN <<"/">>
        ELSE Slice(path, 1, Max(seps) - 1)

\* os.path.isabs(path)
IsAbs(path) == path # <<>> /\ path[1] = "/"

\* os.path.join(a, b)
PathJoin(a, b) ==
    IF IsAbs(b) \/ a = <<>> THEN b
    ELSE IF a[Len(a)] = "/" THEN a \o b
    ELSE a \o <<"/">> \o b

\* os.path.dirname(os.path.abspath(__file__)): the folder of the program
ScriptDir == <<"/","o","p","t","/","h","e","x","a","g","o","n","e">>

\* os.path.join(base_dir, "images", p.id)
ImagesDir(base_dir, id) == PathJoin(PathJoin(base_dir, <<"i","m","a","g","e","s">>), id)

\* the copies _copy_images makes for one record: slot, source and destination
CopiesOf(proj, fs, base_dir) ==
    LET project_images_dir == ImagesDir(base_dir, proj.id)
        logo ==
            IF proj.show_logo /\ proj.logo_url # <<>> /\ Exists(fs, proj.logo_url)
            THEN { [slot |-> <<"l","o","g","o">>, src |-> proj.logo_url,
                    dest |-> PathJoin(project_images_dir, <<"l","o","g","o">> \o Splitext(proj.logo_url))] }
            ELSE {}
        banner ==
            IF proj.banner_image # <<>> /\ Exists(fs, proj.banner_image)
            THEN { [slot |-> <<"b","a","n","n","e","r">>, src |-> proj.banner_image,
                    dest |-> PathJoin(project_images_dir, <<"b","a","n","n","e","r">> \o Splitext(proj.banner_image))] }
            ELSE {}
        shots ==
            { [slot |-> IntToStr(i), src |-> proj.screenshots_local_paths[i],
               dest |-> PathJoin(project_images_dir,
                                 IntToStr(i) \o Splitext(proj.screenshots_local_paths[i]))] :
                i \in {j \in 1..Len(proj.screenshots_local_paths) :
                          Exists(fs, proj.screenshots_local_paths[j])} }
    IN  IF proj.id = <<>> THEN {} ELSE logo \cup banner \cup shots

\* _copy_images(): every copy made, none while no document path is known
copy_images(projs, fs, fp) ==
    IF fp = <<>> THEN {}
    ELSE UNION { CopiesOf(projs[i], fs, Dirname(fp)) : i \in 1..Len(projs) }

\* the test of _export_file that decides whether copying is offered
has_images(projs, fs) ==
    \E i \in 1..Len(projs) :
        \/ projs[i].banner_image # <<>> /\ Exists(fs, projs[i].banner_image)
        \/ \E j \in 1..Len(projs[i].screenshots_local_paths) :
              Exists(fs, projs[i].screenshots_local_paths[j])

\* the characters the pattern \w accepts
WordChars ==
    {Lowers[i] : i \in 1..Len(Lowers)} \cup {Uppers[i] : i \in 1..Len(Uppers)}
        \cup DigitSet \cup { "_" }

\* re.search(r'(\d+)\.\w+$', basename): the digits before the last extension
NumSearch(basename) ==
    LET end == IF basename # <<>> /\ basename[Len(basename)] = "\n"
               THEN Len(basename) - 1 ELSE Len(basename)
        dots == {k \in 2..(end - 1) :
                    /\ basename[k] = "."
                    /\ basename[k - 1] \in DigitSet
                    /\ \A j \in (k + 1)..end : basename[j] \in WordChars}
    IN  IF dots = {} THEN NoMatch
        ELSE LET k == Min(dots)
                 starts == {i \in 1..(k - 1) : \A j \in i..(k - 1) : basename[j] \in DigitSet}
             IN  [found |-> TRUE, text |-> Slice(basename, Min(starts), k - 1)]

\* NumberedExts with the bug of probing .png before .jpg
NumberedExtsPngFirst == << <<".","p","n","g">>, <<".","j","p","g">>, <<".","j","p","e","g">>, <<".","w","e","b","p">>, <<".","g","i","f">> >>

\* the extensions probed for a numbered file, in order
NumberedExts == << <<".","j","p","g">>, <<".","j","p","e","g">>, <<".","p","n","g">>, <<".","w","e","b","p">>, <<".","g","i","f">> >>

\* the first numbered file images_dir/{num}{ext} that exists, or nothing
NumberedFile(images_dir, num, fs) ==
    LET hits == {i \in 1..Len(NumberedExts) :
                    Exists(fs, PathJoin(images_dir, num \o NumberedExts[i]))}
    IN  IF hits = {} THEN <<>>
        ELSE PathJoin(images_dir, num \o NumberedExts[Min(hits)])

\* resolve_image_path(path) inside _md_to_full_html_with_images(p)
resolve_image_path(path, id, fp, fs) ==
    LET base_dir == IF fp # <<>> THEN Dirname(fp) ELSE ScriptDir
        images_dir == IF id # <<>> THEN ImagesDir(base_dir, id) ELSE <<>>
        rel_path == PathJoin(Dirname(fp), path)
        basename == Basename(path)
        img_path == PathJoin(images_dir, basename)
        num_match == NumSearch(basename)
    IN  IF path = <<>> THEN <<>>
        ELSE IF IsAbs(path) /\ Exists(fs, path) THEN path
        ELSE IF fp # <<>> /\ Exists(fs, rel_path) THEN rel_path
        ELSE IF images_dir = <<>> THEN <<>>
        ELSE IF Exists(fs, img_path) THEN img_path
        ELSE IF num_match.found THEN NumberedFile(images_dir, num_match.text, fs)
        ELSE <<>>

----------------------------------------------------------------------------
(* What the user does in the window *)

MaxSteps == 4

\* the texts typed into the ID and the title fields
TypedIds == { <<>>, <<" ","m","y","-","a","p","p"," ">> }
TypedTitles == { <<>>, <<"M","y"," ","A","p","p">> }

\* the file selections of the screenshot picker
PickedShots ==
    { << <<"/","h","o","m","e","/","m","e","/","s","h","o","t","s","/","h","o","m","e",".","p","n","g">> >>,
      << <<"/","h","o","m","e","/","m","e","/","s","h","o","t","s","/","l","o","g","i","n"," ","(","2",")",".","j","p","e","g">>, <<"/","h","o","m","e","/","m","e","/","s","h","o","t","s","/","r","a","w">> >> }

\* where the document is saved and opened
DocPath == <<"/","h","o","m","e","/","m","e","/","s","i","t","e","/","R","E","A","D","M","E",".","m","d">>

\* the documents that can be opened: an export of one record, and loose text
OpenedDocuments ==
    { generate_full_md(<< [Base EXCEPT !.links = CanonicalLinks,
                                       !.screenshots = << <<"a",".","p","n","g">>, <<"b",".","j","p","g">> >>,
                                       !.screenshots_local_paths = << <<"a",".","p","n","g">>, <<"b",".","j","p","g">> >>] >>,
                       {}, <<"M","a","y"," ","1","7",","," ","2","0","2","5">>),
      <<"#"," ","N","o","t","e","s","\n","\n","n","o","t","h","i","n","g"," ","h","e","r","e","\n">> }

\* _parse_md(content) for each document that can be opened
DecodedDocuments == [doc \in OpenedDocuments |-> parse_md(doc)]

----------------------------------------------------------------------------
(* Records with invalid choices *)

InvalidLayouts == { "diagonal", "" }
InvalidBorderStyles == { "none", "dotted", "" }

\* records whose layout or border style may lie outside the radio buttons' values
EnumRecords ==
    { [Base EXCEPT !.screenshot_layout = la,
                   !.show_border = sb, !.border_style = bs,
                   !.screenshots = sh, !.screenshots_local_paths = sh] :
        la \in Layouts \cup InvalidLayouts,
        sb \in BOOLEAN,
        bs \in BorderStyles \cup InvalidBorderStyles,
        sh \in SeqsUpTo({ <<"/","h","o","m","e","/","m","e","/","s","h","o","t","s","/","h","o","m","e",".","p","n","g">> }, 2) }

----------------------------------------------------------------------------
(* Texts that are no export of the program *)

MaxFragments == 2

Fragments ==
    { <<"#","#"," ","D","e","m","o">>, <<"#","#"," "," ">>, <<"#","#","#"," ","F","e","a","t","u","r","e","s","\n","-"," ","o","n","e">>, <<"*","*","b","o","l","d","*","*">>,
      <<"<","p",">","t","e","x","t","<","/","p",">">>, <<"w","i","d","t","h","=","\"","1","2","\"">>, <<"w","i","d","t","h","=","\"","1","0","0","%","\"">>, <<"<","h","r",">">>,
      <<"\n","-","-","-","\n">>, <<"b","o","r","d","e","r",":"," ","1","p","x"," ","s","o","l","i","d">>, <<"d","a","s","h","e","d">>, <<"<","b","r",">">>,
      <<"<","i","m","g"," ","s","r","c","=","\"","i","m","a","g","e","s","/","x","/","1",".","p","n","g","\"">>, <<"U+0060","G","a","m","e","U+0060">>, <<"<","c","o","d","e",">","G","o","<","/","c","o","d","e",">">>,
      <<"<","a"," ","h","r","e","f","=","\"","h","t","t","p","s",":","/","/","g","i","t","h","u","b",".","c","o","m","/","x","\"",">">> }

\* the fragments of a sequence, each on a line of its own
LooseTexts ==
    { Join(frags, NL) : frags \in SeqsUpTo(Fragments, MaxFragments) }

----------------------------------------------------------------------------
(* Records with screenshots, for the layout and the size *)

\* long descriptions: plain, with a line break tag, with a quoted width
ShotDescriptions ==
    { <<>>, <<"P","l","a","i","n"," ","w","o","r","d","s"," ","o","n","l","y">>, <<"T","w","o","<","b","r",">","l","i","n","e","s">>, <<"U","s","e"," ","w","i","d","t","h","=","\"","3","2","0","\""," ","h","e","r","e">> }

ShotStyleRecords ==
    { [Base EXCEPT !.screenshot_layout = la, !.screenshot_size = sz,
                   !.banner_image = ba, !.logo_url = lo,
                   !.short_description = sd,
                   !.screenshots = sh, !.screenshots_local_paths = sh] :
        la \in Layouts, sz \in Sizes,
        ba \in { <<>>, <<"h","t","t","p","s",":","/","/","c","d","n",".","e","x","a","m","p","l","e",".","c","o","m","/","d","e","m","o","/","b","a","n","n","e","r",".","w","e","b","p">>, LocalBanner },
        lo \in { <<>>, LocalLogo },
        sd \in ShotDescriptions,
        sh \in { << <<"/","h","o","m","e","/","m","e","/","s","h","o","t","s","/","h","o","m","e",".","p","n","g">> >>,
                 << <<"/","h","o","m","e","/","m","e","/","s","h","o","t","s","/","h","o","m","e",".","p","n","g">>, <<"s","h","o","t",".","g","i","f">> >> } }

----------------------------------------------------------------------------
(* Records whose images are staged *)

StageShots == { <<"/","h","o","m","e","/","m","e","/","s","h","o","t","s","/","h","o","m","e",".","p","n","g">>, <<"/","h","o","m","e","/","m","e","/","s","h","o","t","s","/","r","a","w">> }

StageRecords ==
    { [Base EXCEPT !.show_logo = lg[1], !.logo_url = lg[2], !.banner_image = ba,
                   !.screenshots = sh, !.screenshots_local_paths = sh] :
        lg \in { <<TRUE, <<>> >>, <<TRUE, LocalLogo>>, <<FALSE, LocalLogo>> },
        ba \in { <<>>, LocalBanner },
        sh \in SeqsUpTo(StageShots, MaxShots) }

\* the local files a record refers to
LocalRefsOf(proj) ==
    ({ proj.logo_url, proj.banner_image }
        \cup { proj.screenshots_local_paths[i] : i \in 1..Len(proj.screenshots_local_paths) })
        \ { <<>> }

----------------------------------------------------------------------------
(* References the preview resolves *)

ResolvedRefs ==
    { <<>>, <<"/","h","o","m","e","/","m","e","/","s","h","o","t","s","/","h","o","m","e",".","p","n","g">>, <<"i","m","a","g","e","s","/","d","e","m","o","/","1",".","p","n","g">>,
      <<"s","c","r","e","e","n","s","h","o","t","_","2",".","p","n","g">>, <<"s","h","o","t","_","3">>, <<"n","o","t","e","s",".","t","x","t">> }

\* the files that may exist when a reference is resolved
ResolvableFiles ==
    { <<"/","h","o","m","e","/","m","e","/","s","h","o","t","s","/","h","o","m","e",".","p","n","g">>,
      <<"/","h","o","m","e","/","m","e","/","s","i","t","e","/","i","m","a","g","e","s","/","d","e","m","o","/","1",".","p","n","g">>,
      <<"/","h","o","m","e","/","m","e","/","s","i","t","e","/","i","m","a","g","e","s","/","d","e","m","o","/","h","o","m","e",".","p","n","g">>,
      <<"/","h","o","m","e","/","m","e","/","s","i","t","e","/","i","m","a","g","e","s","/","d","e","m","o","/","2",".","j","p","g">>,
      <<"/","h","o","m","e","/","m","e","/","s","i","t","e","/","i","m","a","g","e","s","/","d","e","m","o","/","2",".","p","n","g">>,
      <<"/","h","o","m","e","/","m","e","/","s","i","t","e","/","i","m","a","g","e","s","/","d","e","m","o","/","3",".","g","i","f">>,
      <<"/","h","o","m","e","/","m","e","/","s","i","t","e","/","i","m","a","g","e","s","/","2",".","p","n","g">>,
      <<"/","o","p","t","/","h","e","x","a","g","o","n","e","/","i","m","a","g","e","s","/","d","e","m","o","/","2",".","g","i","f">> }

----------------------------------------------------------------------------
(* The state machines *)

IdleProject ==
    /\ p = Project /\ files = {} /\ block = <<>> /\ edit = NoEdit
    /\ q = <<>> /\ pc = "idle"

IdleAll ==
    /\ projects = <<>> /\ today = <<>> /\ content = <<>> /\ parsed = <<>>
    /\ pcAll = "idle"

IdleSlug ==
    /\ name = <<>> /\ slug1 = <<>> /\ slug2 = <<>> /\ pcSlug = "idle"

IdleSession ==
    /\ window = NewApp /\ file_path = <<>> /\ staged = {}
    /\ files2 = {} /\ block2 = <<>> /\ ref = <<>> /\ resolved = <<>>

\* the local files that may or may not exist when the record is encoded
LocalFilesOf(proj) == { proj.logo_url, proj.banner_image } \cap { LocalBanner, LocalLogo }

\* one record, about to be encoded and decoded again
Init ==
    /\ p \in Records
    /\ files \in SUBSET LocalFilesOf(p)
    /\ block = <<>> /\ edit = NoEdit /\ q = <<>> /\ pc = "start"
    /\ IdleAll /\ IdleSlug /\ IdleSession

\* one record whose exported block is edited by hand before it is reopened
InitBlock ==
    /\ p \in EditedRecords
    /\ files = {}
    /\ edit \in Edits
    /\ block = <<>> /\ q = <<>> /\ pc = "start"
    /\ IdleAll /\ IdleSlug /\ IdleSession

\* a collection, about to be exported and opened again
InitAll ==
    /\ projects \in SeqsUpTo(DocRecords, MaxProjects)
    /\ today = <<>> /\ content = <<>> /\ parsed = <<>> /\ pcAll = "start"
    /\ IdleProject /\ IdleSlug /\ IdleSession

\* a title, about to be turned into a slug twice
InitSlug ==
    /\ name \in SeqsUpTo(NameChars, MaxNameLen)
    /\ slug1 = <<>> /\ slug2 = <<>> /\ pcSlug = "start"
    /\ IdleProject /\ IdleAll /\ IdleSession

\* _generate_project_md(p)
GenerateProject ==
    /\ pc = "start"
    /\ block' = generate_project_md(p, files)
    /\ pc' = "generated"
    /\ UNCHANGED <<p, files, edit, q, projects, today, content, parsed, pcAll,
                   name, slug1, slug2, pcSlug, sessionVars>>

\* the user adds a line to the exported block
HandEdit ==
    /\ pc = "generated"
    /\ edit.where # "none"
    /\ block' = IF edit.where = "top"
                THEN EditLine(edit.pieces) \o NL \o block
                ELSE block \o NL \o EditLine(edit.pieces)
    /\ pc' = "edited"
    /\ UNCHANGED <<p, files, edit, q, projects, today, content, parsed, pcAll,
                   name, slug1, slug2, pcSlug, sessionVars>>

\* _parse_md(block)
ParseBlock ==
    /\ \/ pc = "generated" /\ edit.where = "none"
       \/ pc = "edited"
    /\ q' = parse_md(block)
    /\ pc' = "parsed"
    /\ UNCHANGED <<p, files, block, edit, projects, today, content, parsed, pcAll,
                   name, slug1, slug2, pcSlug, sessionVars>>

\* _generate_full_md()
ExportAll ==
    /\ pcAll = "start"
    /\ \E date \in Dates :
          /\ today' = date
          /\ content' = generate_full_md(projects, files, date)
    /\ pcAll' = "exported"
    /\ UNCHANGED <<p, files, block, edit, q, pc, projects, parsed,
                   name, slug1, slug2, pcSlug, sessionVars>>

\* _parse_md(content)
OpenAll ==
    /\ pcAll = "exported"
    /\ parsed' = parse_md(content)
    /\ pcAll' = "opened"
    /\ UNCHANGED <<p, files, block, edit, q, pc, projects, today, content,
                   name, slug1, slug2, pcSlug, sessionVars>>

\* the slug of a title
DeriveSlug ==
    /\ pcSlug = "start"
    /\ slug1' = Slug(name)
    /\ pcSlug' = "once"
    /\ UNCHANGED <<p, files, block, edit, q, pc, projects, today, content, parsed,
                   pcAll, name, slug2, sessionVars>>

\* the slug of a slug
DeriveAgain ==
    /\ pcSlug = "once"
    /\ slug2' = Slug(slug1)
    /\ pcSlug' = "twice"
    /\ UNCHANGED <<p, files, block, edit, q, pc, projects, today, content, parsed,
                   pcAll, name, slug1, sessionVars>>

Next == GenerateProject \/ ParseBlock
NextBlock == GenerateProject \/ HandEdit \/ ParseBlock
NextAll == ExportAll \/ OpenAll
NextSlug == DeriveSlug \/ DeriveAgain

Spec == Init /\ [][Next]_vars
SpecBlock == InitBlock /\ [][NextBlock]_vars
SpecAll == InitAll /\ [][NextAll]_vars
SpecSlug == InitSlug /\ [][NextSlug]_vars

----------------------------------------------------------------------------
(* The window: records are added, edited, exported and opened *)

\* handlers run until the window is destroyed; the session is cut off after
\* MaxSteps handlers
Running == ~window.destroyed /\ window.steps < MaxSteps

\* the files the picker offered exist
InitApp ==
    /\ window = NewApp
    /\ files = UNION { { paths[i] : i \in 1..Len(paths) } : paths \in PickedShots }
    /\ file_path = <<>> /\ staged = {}
    /\ files2 = {} /\ block2 = <<>> /\ ref = <<>> /\ resolved = <<>>
    /\ p = Project /\ block = <<>> /\ edit = NoEdit /\ q = <<>> /\ pc = "idle"
    /\ IdleAll /\ IdleSlug

\* _add_project(): the window afterwards
add_project(a, fs) ==
    LET saved == save_current(a, fs)
        proj == NewProject(Len(saved) + 1)
    IN  [a EXCEPT !.projects = Append(saved, proj),
                  !.selected_index = Len(saved),
                  !.form = load_project(proj),
                  !.has_changes = TRUE]

\* the Add Project button and Ctrl-n
AddProject ==
    /\ Running
    /\ Len(window.projects) < MaxProjects
    /\ window' = [add_project(window, files) EXCEPT !.last = "add", !.steps = @ + 1]
    /\ UNCHANGED <<p, files, block, edit, q, pc, projects, today, content, parsed, pcAll,
                   name, slug1, slug2, pcSlug, file_path, staged, files2, block2, ref, resolved>>

\* _on_select(event) with row i of the project list selected
SelectProject ==
    /\ Running
    /\ \E i \in 0..(Len(window.projects) - 1) :
          LET saved == save_current(window, files)
          IN  window' = [window EXCEPT !.projects = saved,
                                 !.selected_index = i,
                                 !.form = load_project(saved[i + 1]),
                                 !.last = "select", !.steps = @ + 1]
    /\ UNCHANGED <<p, files, block, edit, q, pc, projects, today, content, parsed, pcAll,
                   name, slug1, slug2, pcSlug, file_path, staged, files2, block2, ref, resolved>>

\* the user replaces the text of the ID field; _on_change(event)
TypeId ==
    /\ Running
    /\ \E t \in TypedIds :
          window' = [window EXCEPT !.form.id_entry = t, !.has_changes = TRUE,
                             !.last = "type", !.steps = @ + 1]
    /\ UNCHANGED <<p, files, block, edit, q, pc, projects, today, content, parsed, pcAll,
                   name, slug1, slug2, pcSlug, file_path, staged, files2, block2, ref, resolved>>

\* the user replaces the text of the title field; _on_change(event)
TypeTitle ==
    /\ Running
    /\ \E t \in TypedTitles :
          window' = [window EXCEPT !.form.title_entry = t, !.has_changes = TRUE,
                             !.last = "type", !.steps = @ + 1]
    /\ UNCHANGED <<p, files, block, edit, q, pc, projects, today, content, parsed, pcAll,
                   name, slug1, slug2, pcSlug, file_path, staged, files2, block2, ref, resolved>>

\* _add_screenshots() with a non-empty selection
AddScreenshots ==
    /\ Running
    /\ \E paths \in PickedShots :
          /\ Len(window.form.screenshots_listbox) + Len(paths) <= MaxShots
          /\ window' = [window EXCEPT
                        !.form.screenshots_listbox =
                            @ \o [i \in 1..Len(paths) |-> ListboxItem(paths[i])],
                        !.has_changes = TRUE,
                        !.last = "shots", !.steps = @ + 1]
    /\ UNCHANGED <<p, files, block, edit, q, pc, projects, today, content, parsed, pcAll,
                   name, slug1, slug2, pcSlug, file_path, staged, files2, block2, ref, resolved>>

\* _remove_screenshot() with row sel selected
RemoveScreenshot ==
    /\ Running
    /\ \E sel \in 1..Len(window.form.screenshots_listbox) :
          window' = [window EXCEPT
                     !.form.screenshots_listbox =
                         SubSeq(@, 1, sel - 1) \o SubSeq(@, sel + 1, Len(@)),
                     !.has_changes = TRUE,
                     !.last = "shots", !.steps = @ + 1]
    /\ UNCHANGED <<p, files, block, edit, q, pc, projects, today, content, parsed, pcAll,
                   name, slug1, slug2, pcSlug, file_path, staged, files2, block2, ref, resolved>>

\* _clear_screenshots()
ClearScreenshots ==
    /\ Running
    /\ window' = [window EXCEPT !.form.screenshots_listbox = <<>>,
                          !.has_changes = TRUE,
                          !.last = "shots", !.steps = @ + 1]
    /\ UNCHANGED <<p, files, block, edit, q, pc, projects, today, content, parsed, pcAll,
                   name, slug1, slug2, pcSlug, file_path, staged, files2, block2, ref, resolved>>

\* _export_file(): save the editor, ask for a path if none is known, write
\* the document and copy the images if the user agrees.  The save dialog
\* may be cancelled and writing the file may raise; closing says whether
\* the caller, _on_close, destroys the window afterwards.
Export(closing) ==
    LET saved == save_current(window, files)
    IN  \E path \in (IF file_path # <<>> THEN { file_path } ELSE { DocPath, <<>> }) :
            IF path = <<>>
            THEN /\ window' = [window EXCEPT !.projects = saved, !.destroyed = closing,
                                       !.last = "save", !.steps = @ + 1]
                 /\ UNCHANGED <<file_path, content, today, staged>>
            ELSE \/ /\ window' = [window EXCEPT !.projects = saved, !.destroyed = closing,
                                          !.last = "exportfail", !.steps = @ + 1]
                    /\ file_path' = path
                    /\ UNCHANGED <<content, today, staged>>
                 \/ /\ window' = [window EXCEPT !.projects = saved,
                                          !.has_changes = FALSE, !.destroyed = closing,
                                          !.last = "export", !.steps = @ + 1]
                    /\ file_path' = path
                    /\ \E date \in Dates :
                          /\ content' = generate_full_md(saved, files, date)
                          /\ today' = date
                    /\ \E agreed \in (IF has_images(saved, files) THEN BOOLEAN ELSE { FALSE }) :
                          staged' = IF agreed THEN copy_images(saved, files, path) ELSE staged

\* the Export button and Ctrl-s
ExportFile ==
    /\ Running
    /\ Export(FALSE)
    /\ UNCHANGED <<p, files, block, edit, q, pc, projects, parsed, pcAll,
                   name, slug1, slug2, pcSlug, files2, block2, ref, resolved>>

\* _open_file(): the dialog is cancelled, the file cannot be read, or a
\* document is read and decoded
OpenFile ==
    /\ Running
    /\ \/ /\ \E outcome \in { "opencancel", "openfail" } :
                window' = [window EXCEPT !.last = outcome, !.steps = @ + 1]
          /\ UNCHANGED file_path
       \/ /\ \E doc \in OpenedDocuments :
                LET projs == DecodedDocuments[doc]
                IN  window' = [window EXCEPT !.projects = projs,
                                       !.has_changes = FALSE,
                                       !.selected_index = IF projs # <<>> THEN 0 ELSE @,
                                       !.form = IF projs # <<>> THEN load_project(projs[1]) ELSE @,
                                       !.last = "open", !.steps = @ + 1]
          /\ file_path' = DocPath
    /\ UNCHANGED <<p, files, block, edit, q, pc, projects, today, content, parsed, pcAll,
                   name, slug1, slug2, pcSlug, staged, files2, block2, ref, resolved>>

NextApp ==
    \/ AddProject \/ SelectProject \/ TypeId \/ TypeTitle
    \/ AddScreenshots \/ RemoveScreenshot \/ ClearScreenshots
    \/ ExportFile \/ OpenFile

SpecApp == InitApp /\ [][NextApp]_vars

----------------------------------------------------------------------------
(* One record with a choice outside the radio buttons, encoded and decoded *)

InitEnum ==
    /\ p \in EnumRecords
    /\ files = {}
    /\ block = <<>> /\ edit = NoEdit /\ q = <<>> /\ pc = "start"
    /\ IdleAll /\ IdleSlug /\ IdleSession

SpecEnum == InitEnum /\ [][Next]_vars

----------------------------------------------------------------------------
(* A text that was written by hand, decoded *)

InitText ==
    /\ p = Project /\ files = {}
    /\ block \in LooseTexts
    /\ edit = NoEdit /\ q = <<>> /\ pc = "edited"
    /\ IdleAll /\ IdleSlug /\ IdleSession

NextText == ParseBlock

SpecText == InitText /\ [][NextText]_vars

----------------------------------------------------------------------------
(* One record encoded twice, the environment changing in between *)

InitEnv ==
    /\ p \in StageRecords
    /\ files \in SUBSET LocalRefsOf(p)
    /\ block = <<>> /\ edit = NoEdit /\ q = <<>> /\ pc = "start"
    /\ IdleAll /\ IdleSlug /\ IdleSession

\* between two encodings files appear and disappear, and a document may be opened
ChangeEnvironment ==
    /\ pc = "generated"
    /\ files2' \in SUBSET LocalRefsOf(p)
    /\ file_path' \in { <<>>, DocPath }
    /\ pc' = "changed"
    /\ UNCHANGED <<p, files, block, edit, q, projects, today, content, parsed, pcAll,
                   name, slug1, slug2, pcSlug, window, staged, block2, ref, resolved>>

\* _generate_project_md(p) once more
GenerateAgain ==
    /\ pc = "changed"
    /\ block2' = generate_project_md(p, files2)
    /\ pc' = "again"
    /\ UNCHANGED <<p, files, block, edit, q, projects, today, content, parsed, pcAll,
                   name, slug1, slug2, pcSlug, window, file_path, staged, files2, ref, resolved>>

NextEnv == GenerateProject \/ ChangeEnvironment \/ GenerateAgain

SpecEnv == InitEnv /\ [][NextEnv]_vars

----------------------------------------------------------------------------
(* One record with screenshots, encoded and decoded *)

InitShots ==
    /\ p \in ShotStyleRecords
    /\ files \in SUBSET LocalFilesOf(p)
    /\ block = <<>> /\ edit = NoEdit /\ q = <<>> /\ pc = "start"
    /\ IdleAll /\ IdleSlug /\ IdleSession

SpecShots == InitShots /\ [][Next]_vars

----------------------------------------------------------------------------
(* One record encoded, and its images copied next to the document *)

InitStage ==
    /\ p \in StageRecords
    /\ files \in SUBSET LocalRefsOf(p)
    /\ block = <<>> /\ edit = NoEdit /\ q = <<>> /\ pc = "start"
    /\ IdleAll /\ IdleSlug
    /\ window = NewApp /\ file_path = DocPath /\ staged = {}
    /\ files2 = {} /\ block2 = <<>> /\ ref = <<>> /\ resolved = <<>>

\* _copy_images() for the collection that holds the record
CopyImages ==
    /\ pc = "generated"
    /\ staged' = copy_images(<< p >>, files, file_path)
    /\ pc' = "staged"
    /\ UNCHANGED <<p, files, block, edit, q, projects, today, content, parsed, pcAll,
                   name, slug1, slug2, pcSlug, window, file_path, files2, block2, ref, resolved>>

NextStage == GenerateProject \/ CopyImages

SpecStage == InitStage /\ [][NextStage]_vars

----------------------------------------------------------------------------
(* One reference resolved for the preview *)

InitResolve ==
    /\ p \in { Base, [Base EXCEPT !.id = <<>>] }
    /\ files \in SUBSET ResolvableFiles
    /\ file_path \in { <<>>, DocPath }
    /\ ref \in ResolvedRefs
    /\ resolved = <<>>
    /\ block = <<>> /\ edit = NoEdit /\ q = <<>> /\ pc = "start"
    /\ IdleAll /\ IdleSlug
    /\ window = NewApp /\ staged = {} /\ files2 = {} /\ block2 = <<>>

\* resolve_image_path(ref) while the preview of p is built
ResolveImagePath ==
    /\ pc = "start"
    /\ resolved' = resolve_image_path(ref, p.id, file_path, files)
    /\ pc' = "resolved"
    /\ UNCHANGED <<p, files, block, edit, q, projects, today, content, parsed, pcAll,
                   name, slug1, slug2, pcSlug, window, file_path, staged, files2, block2, ref>>

NextResolve == ResolveImagePath

SpecResolve == InitResolve /\ [][NextResolve]_vars

----------------------------------------------------------------------------
(* Vocabulary of the properties *)

MarkupChars == { "<", ">", "*", "#", "\"", "\n", "U+0060" }

\* the text values of a record: its texts, lists and link addresses
TextsOf(proj) ==
    { proj.title, proj.short_description, proj.long_description }
        \cup { proj.technologies[i] : i \in 1..Len(proj.technologies) }
        \cup { proj.features[i] : i \in 1..Len(proj.features) }
        \cup { proj.links[k] : k \in DOMAIN proj.links }

\* every text value is stripped and holds no markup character
MarkupFree(proj) ==
    \A t \in TextsOf(proj) :
        Strip(t) = t /\ \A i \in 1..Len(t) : t[i] \notin MarkupChars

\* no logo, no banner, no screenshot
NoImages(proj) ==
    proj.logo_url = <<>> /\ proj.banner_image = <<>> /\ proj.screenshots = <<>>

\* the number of places where pat occurs in t
Count(t, pat) == Cardinality({i \in 1..Len(t) : StartsAt(t, i, pat)})

\* the number of places in a..b where pat occurs in t
CountIn(t, pat, a, b) == Cardinality({i \in a..b : StartsAt(t, i, pat)})

----------------------------------------------------------------------------
(* Properties *)

\* C1: for a non-empty collection whose titles are all non-empty, opening
\* the exported document gives as many records as were exported, with the
\* same titles in the same order.
C1_OpenReturnsExportedTitles ==
    (/\ pcAll = "opened"
     /\ projects # <<>>
     /\ \A i \in 1..Len(projects) : projects[i].title # <<>>)
    => /\ Len(parsed) = Len(projects)
       /\ \A i \in 1..Len(projects) : parsed[i].title = projects[i].title

\* C2: a record with a title, no image and markup-free text comes back from
\* encode and decode with the same title, categories, descriptions,
\* technologies and features, whichever of them are empty and whether or not
\* link badges are present.
C2_TextFieldsRoundTrip ==
    (pc = "parsed" /\ NoImages(p) /\ MarkupFree(p) /\ p.title # <<>>)
    => /\ Len(q) = 1
       /\ q[1].title = p.title
       /\ q[1].categories = p.categories
       /\ q[1].short_description = p.short_description
       /\ q[1].long_description = p.long_description
       /\ q[1].technologies = p.technologies
       /\ q[1].features = p.features

C2_Witness ==
    /\ pc = "parsed" /\ NoImages(p) /\ MarkupFree(p)
    /\ p.short_description # <<>> /\ p.long_description = <<>>
    /\ Len(p.technologies) = 2 /\ Len(p.features) = 2
    /\ p.links = CanonicalLinks
    /\ Len(q) = 1 /\ q[1].features = p.features

\* C3: a record without images comes back from encode and decode with, for
\* each of the five link keys, exactly the value it had under that key.
C3_LinksRoundTrip ==
    (pc = "parsed" /\ NoImages(p))
    => /\ Len(q) = 1
       /\ \A i \in 1..Len(LinkKeys) :
             LinkGet(q[1].links, LinkKeys[i]) = LinkGet(p.links, LinkKeys[i])

\* C4 (as stated): a record without images comes back from encode and
\* decode with the screenshot layout it had.
C4_LayoutRoundTrip ==
    (pc = "parsed" /\ NoImages(p) /\ p.screenshot_layout \in Layouts)
    => Len(q) = 1 /\ q[1].screenshot_layout = p.screenshot_layout

\* C4 (amended): a record without images and with markup-free text comes
\* back with the layout horizontal, whatever its layout was, so the layout
\* is recovered exactly when it was horizontal.
C4_LayoutLostWithoutImages ==
    (pc = "parsed" /\ NoImages(p) /\ MarkupFree(p) /\ p.screenshot_layout \in Layouts)
    => /\ Len(q) = 1
       /\ q[1].screenshot_layout = "horizontal"
       /\ (q[1].screenshot_layout = p.screenshot_layout
              <=> p.screenshot_layout = "horizontal")

C4_Witness ==
    /\ pc = "parsed" /\ NoImages(p) /\ MarkupFree(p)
    /\ p.screenshot_layout = "grid"
    /\ Len(q) = 1 /\ q[1].screenshot_layout = "horizontal"

\* C5 (as stated): a record without images comes back from encode and
\* decode with the screenshot size it had.
C5_SizeRoundTrip ==
    (pc = "parsed" /\ NoImages(p) /\ p.screenshot_size > 0)
    => Len(q) = 1 /\ q[1].screenshot_size = p.screenshot_size

\* C5 (amended): a record without images and with markup-free text comes
\* back with the default size 200, whatever its size was, so the size is
\* recovered exactly when it was 200.
C5_SizeLostWithoutImages ==
    (pc = "parsed" /\ NoImages(p) /\ MarkupFree(p) /\ p.screenshot_size > 0)
    => /\ Len(q) = 1
       /\ q[1].screenshot_size = 200
       /\ (q[1].screenshot_size = p.screenshot_size <=> p.screenshot_size = 200)

C5_Witness ==
    /\ pc = "parsed" /\ NoImages(p) /\ MarkupFree(p)
    /\ p.screenshot_size = 1080
    /\ Len(q) = 1 /\ q[1].screenshot_size = 200

\* C6: every record comes back from encode and decode with the show-border
\* flag it had and, when the border is shown in one of the three styles,
\* with the border style it had.
C6_BorderRoundTrip ==
    (pc = "parsed" /\ p.border_style \in BorderStyles)
    => /\ Len(q) = 1
       /\ q[1].show_border = p.show_border
       /\ (p.show_border => q[1].border_style = p.border_style)

\* C7: a record with N >= 1 screenshots comes back with N screenshots, the
\* i-th named screenshot_{i}.{ext} with the extension of the i-th stored
\* reference (png when it has none), and the same names as local paths.
C7_ScreenshotsRenamedByPosition ==
    (pc = "parsed" /\ Len(p.screenshots) >= 1)
    => /\ Len(q) = 1
       /\ Len(q[1].screenshots) = Len(p.screenshots)
       /\ \A i \in 1..Len(p.screenshots) :
             q[1].screenshots[i] =
                 <<"s","c","r","e","e","n","s","h","o","t","_">> \o IntToStr(i) \o ShotExt(p.screenshots[i])
       /\ q[1].screenshots_local_paths = q[1].screenshots

\* the src attribute the grid gives to screenshot i
GridSrc(proj, i) ==
    <<"s","r","c","=","\"","i","m","a","g","e","s","/">> \o proj.id \o <<"/">> \o IntToStr(i)
        \o ShotExt(proj.screenshots[i]) \o <<"\"">>

\* C8: in the grid layout, N >= 1 screenshots give ceil(N/2) table rows of
\* two cells each, screenshot i in cell 1 or 2 of row ceil(i/2) in index
\* order, and one empty cell, the last, if and only if N is odd.
C8_GridRows ==
    (pc \in { "generated", "parsed" } /\ p.screenshot_layout = "grid"
        /\ Len(p.screenshots) >= 1)
    => LET n == Len(p.screenshots)
           rows == {i \in 1..Len(block) : StartsAt(block, i, <<"<","t","r",">">>)}
           rowEnd(r) == Find(block, <<"<","/","t","r",">">>, r)
           at(i) == Find(block, GridSrc(p, i), 1)
           rowOf(i) == Max({r \in rows : r < at(i)})
           empty == Find(block, <<"<","t","d",">","<","/","t","d",">">>, 1)
       IN  /\ Cardinality(rows) = (n + 1) \div 2
           /\ Count(block, <<"<","/","t","r",">">>) = (n + 1) \div 2
           /\ \A r \in rows :
                 /\ rowEnd(r) # 0
                 /\ CountIn(block, <<"<","t","d">>, r, rowEnd(r)) = 2
                 /\ CountIn(block, <<"<","t","r",">">>, r + 1, rowEnd(r)) = 0
           /\ \A i \in 1..n :
                 /\ at(i) # 0
                 /\ Count(block, GridSrc(p, i)) = 1
                 /\ Cardinality({r \in rows : r < at(i)}) = (i + 1) \div 2
                 /\ CountIn(block, <<"<","t","d">>, rowOf(i), at(i)) = ((i - 1) % 2) + 1
           /\ Count(block, <<"<","t","d",">","<","/","t","d",">">>) = n % 2
           /\ (n % 2 = 1) =>
                 /\ empty > at(n)
                 /\ empty < rowEnd(Max(rows))
                 /\ empty > Max(rows)

C8_Witness ==
    /\ pc = "generated" /\ p.screenshot_layout = "grid"
    /\ Len(p.screenshots) = 3
    /\ Count(block, <<"<","t","r",">">>) = 2
    /\ Count(block, <<"<","t","d",">","<","/","t","d",">">>) = 1

\* C9: the slug of any title is defined, holds only characters of
\* [a-z0-9-] and is its own slug; the id the decoder derives from a heading
\* and the anchor of the table of contents are that slug.
C9_SlugIdempotent ==
    /\ pcSlug \in { "once", "twice" } =>
          /\ \A i \in 1..Len(slug1) : slug1[i] \in SlugChars
          /\ (name # <<>> /\ Strip(name) = name) =>
                /\ ParseId(<<"#","#"," ">> \o name) = slug1
                /\ Contains(TocRow([Base EXCEPT !.title = name], 1),
                            <<"]","(","#">> \o slug1 \o <<")"," ","|"," ">>)
    /\ pcSlug = "twice" => slug2 = slug1

C9_Witness ==
    /\ pcSlug = "twice"
    /\ name = << "Z", " ", "!" >>
    /\ slug1 = << "z", "-" >>
    /\ slug2 = slug1

\* the known categories among the inline-code spans of an edited line
KnownSpans(pieces) ==
    LET kept == SelectSeq(pieces,
                    LAMBDA x : x.kind = "span"
                               /\ \E k \in 1..Len(KnownCategories) :
                                     KnownCategories[k] = x.text)
    IN  [i \in 1..Len(kept) |-> kept[i].text]

\* C10: the decoded categories are the inline-code spans of the block that
\* are in the vocabulary, in document order; a span outside the vocabulary
\* and a technology in code tags are never decoded as categories.
C10_CategoriesAreKnownSpans ==
    pc = "parsed" =>
        /\ Len(q) = 1
        /\ q[1].categories =
              IF edit.where = "top" THEN KnownSpans(edit.pieces) \o p.categories
              ELSE IF edit.where = "bottom" THEN p.categories \o KnownSpans(edit.pieces)
              ELSE p.categories

C10_Witness ==
    /\ pc = "parsed" /\ edit.where = "bottom"
    /\ p.technologies = << <<"I","o","T">>, <<"G","a","m","e">> >>
    /\ p.categories = << <<"G","a","m","e">>, <<"O","t","h","e","r">> >>
    /\ edit.pieces = << [kind |-> "span", text |-> <<"N","o","n","e","x","i","s","t","e","n","t">>],
                        [kind |-> "code", text |-> <<"I","o","T">>],
                        [kind |-> "span", text |-> <<"M","o","b","i","l","e"," ","A","p","p">>] >>
    /\ Len(q) = 1
    /\ q[1].categories = << <<"G","a","m","e">>, <<"O","t","h","e","r">>, <<"M","o","b","i","l","e"," ","A","p","p">> >>

\* C11: every record of the collection, whether created by Add Project,
\* written by the editor save or produced by the decoder, has a links
\* mapping that holds all five keys playStore, appStore, website, github
\* and apk.
C11_LinksHoldFiveKeys ==
    \A i \in 1..Len(window.projects) :
        DOMAIN EmptyLinks \subseteq DOMAIN window.projects[i].links

\* C12: after any sequence of Add Project, editor save, screenshot add,
\* remove and clear, and document decode, every record of the collection
\* has screenshots and screenshots_local_paths of the same length, and the
\* entries at each index name the same image.
C12_ScreenshotsMatchLocalPaths ==
    \A i \in 1..Len(window.projects) :
        LET r == window.projects[i]
        IN  /\ Len(r.screenshots) = Len(r.screenshots_local_paths)
            /\ \A j \in 1..Len(r.screenshots) :
                  r.screenshots[j] = r.screenshots_local_paths[j]

\* a record saved from a listbox of two screenshots, one of them with
\* parentheses in its path, and a decoded record with screenshots
C12_Witness ==
    /\ window.last \in { "export", "save" }
    /\ \E i \in 1..Len(window.projects) :
          /\ Len(window.projects[i].screenshots) = 2
          /\ window.projects[i].screenshots[1] # <<"/","h","o","m","e","/","m","e","/","s","h","o","t","s","/","h","o","m","e",".","p","n","g">>
    /\ \E i \in 1..Len(window.projects) :
          window.projects[i].screenshots = << <<"s","c","r","e","e","n","s","h","o","t","_","1",".","p","n","g">>, <<"s","c","r","e","e","n","s","h","o","t","_","2",".","j","p","g">> >>

\* C13: a record that reaches the encoder with a non-empty title and an id
\* field that was left empty has id = slug(title).
C13_IdDerivedFromTitle ==
    (/\ window.last = "export"
     /\ window.selected_index # None
     /\ window.selected_index < Len(window.projects))
    => LET r == window.projects[window.selected_index + 1]
       IN  (Strip(window.form.id_entry) = <<>> /\ r.title # <<>>)
           => r.id = Slug(r.title)

\* C14: with a layout or a border style outside the documented values the
\* encoder writes what it writes for the default: the block of a record
\* with screenshots and an unknown layout equals the block for layout
\* horizontal, and the block of a bordered record with an unknown style
\* equals the block for style rounded.
C14_InvalidEnumFallsBack ==
    pc # "start"
    => /\ (p.screenshots # <<>> /\ p.screenshot_layout \notin Layouts)
          => block = generate_project_md([p EXCEPT !.screenshot_layout = "horizontal"], files)
       /\ (p.show_border /\ p.border_style \notin BorderStyles)
          => block = generate_project_md([p EXCEPT !.border_style = "rounded"], files)

\* the marker without which the pattern of a field cannot match is absent
\* from the part, and the field of the record has its default
Defaulted(part, r) ==
    /\ ~Contains(part, <<"U+0060">>) => r.categories = <<>>
    /\ ~Contains(part, <<"*","*">>) => r.short_description = <<>>
    /\ ~Contains(part, <<"<","p",">">>) => r.long_description = <<>>
    /\ ~Contains(part, <<"<","c","o","d","e",">">>) => r.technologies = <<>>
    /\ ~Contains(part, <<"F","e","a","t","u","r","e","s">>) => r.features = <<>>
    /\ ~Contains(part, <<"h","r","e","f","=">>)
       => \A k \in DOMAIN EmptyLinks : LinkGet(r.links, k) = <<>>
    /\ ~Contains(part, <<"i","m","a","g","e","s","/">>)
       => r.screenshots = <<>> /\ r.screenshots_local_paths = <<>>
    /\ ~Contains(part, <<"w","i","d","t","h","=","\"","1","0","0","%","\"">>) => r.banner_image = <<>>
    /\ ~Contains(part, <<"h","e","i","g","h","t","=","\"","6","4","\"">>) => r.logo_url = <<>> /\ r.show_logo
    /\ ~Contains(part, <<"b","o","r","d","e","r",":"," ">>) => ~r.show_border /\ r.border_style = "rounded"
    /\ (~Contains(part, <<"<","t","a","b","l","e">>) /\ ~Contains(part, <<"<","b","r",">">>))
       => r.screenshot_layout = "horizontal"
    /\ (\A i \in 1..Len(part) :
           StartsAt(part, i, <<"w","i","d","t","h","=","\"">>) => ~(i + 7 <= Len(part) /\ part[i + 7] \in DigitSet))
       => r.screenshot_size = DefaultScreenshotSize

\* C15: for every text the decoder returns a list of records, every record
\* it returns has a non-empty title, and every field whose pattern is
\* absent from the record's block has its default: empty text and lists,
\* no border and style rounded, layout horizontal, size 200.
C15_DecodingIsDefaulted ==
    pc = "parsed"
    => LET parts == SplitFrom(block, 1)
       IN  /\ Len(q) <= Len(parts)
           /\ \A j \in 1..Len(q) :
                 /\ q[j].title # <<>>
                 /\ \E i \in 1..Len(parts) : q[j] = DecodeProject(parts[i])
                 /\ \A i \in 1..Len(parts) :
                       q[j] = DecodeProject(parts[i]) => Defaulted(parts[i], q[j])

\* a heading and the word dashed, with no border marker: one record, all of
\* whose fields but the title and the id are defaults
C15_Witness ==
    /\ pc = "parsed"
    /\ block = <<"#","#"," ","D","e","m","o","\n","d","a","s","h","e","d">>
    /\ q = << [Project EXCEPT !.title = <<"D","e","m","o">>, !.id = <<"d","e","m","o">>] >>

\* the environment answers the same at both encodings for the files the
\* encoder asks about: the logo when it is shown, and the banner
SameProbes ==
    /\ (p.show_logo /\ p.logo_url # <<>>) => (p.logo_url \in files <=> p.logo_url \in files2)
    /\ p.banner_image # <<>> => (p.banner_image \in files <=> p.banner_image \in files2)

\* C16: two encodings of the same record give the same text, whatever
\* files exist and whatever document is open at each of them.
C16_EncodeIgnoresEnvironment ==
    pc = "again" => block2 = block

\* C16, amended: two encodings of the same record give the same text when
\* the logo file, if the logo is shown, and the banner file exist at both
\* encodings or at neither; the other files and the document path do not
\* matter.
C16_EncodeDependsOnLogoAndBannerOnly ==
    (pc = "again" /\ SameProbes) => block2 = block

\* the logo exists at both encodings, a screenshot file exists at one of
\* them only, and a document has been opened in between
C16_Witness ==
    /\ pc = "again"
    /\ SameProbes
    /\ p.show_logo /\ p.logo_url \in files
    /\ \E i \in 1..Len(p.screenshots) : p.screenshots[i] \in files /\ p.screenshots[i] \notin files2
    /\ file_path # <<>>

\* a line of the part is a level-2 heading
HasLevel2Heading(part) ==
    \E i \in 1..Len(part) :
        StartsAt(part, i, <<"#","#"," ">>) /\ (i = 1 \/ part[i - 1] = "\n")

\* C17: a block of the document without a level-2 heading, such as the
\* front matter and the footer, gives no record: every record that is
\* returned comes from a block that has one.
C17_BlocksWithoutLevel2HeadingGiveNoRecord ==
    pcAll = "opened"
    => LET parts == SplitFrom(content, 1)
       IN  \A j \in 1..Len(parsed) :
              \E i \in 1..Len(parts) :
                 HasLevel2Heading(parts[i]) /\ parsed[j] = DecodeProject(parts[i])

\* C18: the layout and the size of a record with at least one screenshot
\* are recovered from its block, also when the block holds a banner or a
\* logo.
C18_LayoutAndSizeRoundTrip ==
    (pc = "parsed" /\ p.screenshots # <<>>)
    => /\ Len(q) = 1
       /\ q[1].screenshot_layout = p.screenshot_layout
       /\ q[1].screenshot_size = p.screenshot_size

\* C18, amended: the layout and the size of a record with at least one
\* screenshot and text values free of markup are recovered from its block,
\* also when the block holds a banner or a logo.
C18_LayoutAndSizeRoundTripOfPlainText ==
    (pc = "parsed" /\ p.screenshots # <<>> /\ MarkupFree(p))
    => /\ Len(q) = 1
       /\ q[1].screenshot_layout = p.screenshot_layout
       /\ q[1].screenshot_size = p.screenshot_size

\* two screenshots at width 1080 in the vertical layout, under a banner
\* that is written at width 100% and a logo
C18_Witness ==
    /\ pc = "parsed"
    /\ MarkupFree(p)
    /\ Len(p.screenshots) = 2
    /\ p.screenshot_layout = "vertical" /\ p.screenshot_size = 1080
    /\ p.banner_image = LocalBanner /\ LocalBanner \in files
    /\ p.logo_url = LocalLogo
    /\ Contains(block, <<"w","i","d","t","h","=","\"","1","0","0","%","\"">>)
    /\ q[1].screenshot_size = 1080

\* the place of a copy relative to the folder of the document
RelativeToDocument(dest) == Slice(dest, Len(Dirname(file_path)) + 2, Len(dest))

\* C19: for a record with an id, every image slot whose source file exists
\* (the logo when it is shown, the banner, screenshot i) is copied, and the
\* place of each copy relative to the document folder is the src path the
\* encoder wrote for the slot.
C19_StagedWhereEncoded ==
    (pc = "staged" /\ p.id # <<>>)
    => /\ (p.show_logo /\ p.logo_url # <<>> /\ p.logo_url \in files)
          => \E c \in staged : c.slot = <<"l","o","g","o">> /\ c.src = p.logo_url
       /\ (p.banner_image # <<>> /\ p.banner_image \in files)
          => \E c \in staged : c.slot = <<"b","a","n","n","e","r">> /\ c.src = p.banner_image
       /\ \A i \in 1..Len(p.screenshots_local_paths) :
             p.screenshots_local_paths[i] \in files
             => \E c \in staged : c.slot = IntToStr(i) /\ c.src = p.screenshots_local_paths[i]
       /\ \A c \in staged :
             Contains(block, <<"s","r","c","=","\"">> \o RelativeToDocument(c.dest) \o <<"\"">>)

\* the digits that end the base name before its extension, if any
TrailingNumber(base) ==
    LET dots == {i \in 1..Len(base) : base[i] = "."}
        k == Max(dots)
        run == {i \in 1..(k - 1) : \A j \in i..(k - 1) : base[j] \in DigitSet}
    IN  IF dots = {} THEN <<>>
        ELSE IF run = {} \/ k = Len(base) THEN <<>>
        ELSE Slice(base, Min(run), k - 1)

\* the places where a reference is looked for, in order; D is the folder
\* of the document, or the folder of the program while no document is
\* known, and the places under images are tried for a record with an id
CandidatesOf(path) ==
    LET D == IF file_path # <<>> THEN Dirname(file_path) ELSE ScriptDir
        folder == D \o <<"/","i","m","a","g","e","s","/">> \o p.id \o <<"/">>
        n == TrailingNumber(Basename(path))
        exts == << <<".","j","p","g">>, <<".","j","p","e","g">>, <<".","p","n","g">>, <<".","w","e","b","p">>, <<".","g","i","f">> >>
    IN  (IF IsAbs(path) THEN << path >> ELSE <<>>)
        \o (IF file_path # <<>> /\ ~IsAbs(path) THEN << D \o <<"/">> \o path >> ELSE <<>>)
        \o (IF p.id # <<>> THEN << folder \o Basename(path) >> ELSE <<>>)
        \o (IF p.id # <<>> /\ n # <<>>
            THEN [i \in 1..Len(exts) |-> folder \o n \o exts[i]]
            ELSE <<>>)

\* C20: resolve_image_path returns the first place that exists among: the
\* reference itself if it is absolute; D/ref when the document path is
\* known; D/images/{id}/basename(ref); D/images/{id}/{n}{ext} for the
\* trailing number n of the base name and ext in the order .jpg, .jpeg,
\* .png, .webp, .gif.  It returns the empty result when the reference is
\* empty or no place exists, so every non-empty result exists.
C20_FirstExistingCandidate ==
    pc = "resolved"
    => LET cands == CandidatesOf(ref)
           hits == {i \in 1..Len(cands) : cands[i] \in files}
       IN  /\ ref = <<>> => resolved = <<>>
           /\ ref # <<>> => resolved = (IF hits = {} THEN <<>> ELSE cands[Min(hits)])
           /\ resolved # <<>> => resolved \in files

\* a decoded screenshot name whose numbered file exists as .jpg and as
\* .png, and nowhere earlier in the order: the .jpg file is returned
C20_Witness ==
    /\ pc = "resolved"
    /\ ref = <<"s","c","r","e","e","n","s","h","o","t","_","2",".","p","n","g">>
    /\ <<"/","h","o","m","e","/","m","e","/","s","i","t","e","/","i","m","a","g","e","s","/","d","e","m","o","/","2",".","j","p","g">> \in files
    /\ <<"/","h","o","m","e","/","m","e","/","s","i","t","e","/","i","m","a","g","e","s","/","d","e","m","o","/","2",".","p","n","g">> \in files
    /\ resolved = <<"/","h","o","m","e","/","m","e","/","s","i","t","e","/","i","m","a","g","e","s","/","d","e","m","o","/","2",".","j","p","g">>

----------------------------------------------------------------------------
(* One record with links and an accent colour, encoded and decoded *)

\* what the accent colour entry can hold: empty, a preset, the same typed
\* without or with a doubled hash, a hash alone
ThemeColors == { <<>>, <<"#","0","0","0","0","0","0">>, <<"#","f","f","5","7","2","2">>, <<"f","f","5","7","2","2">>, <<"#","#","f","f","5","7","2","2">>, <<"#">> }

\* the links of a record: none (a record just added), some of the five
\* keys, or all five keys, each empty, on its own host or on GitHub
BadgeLinks ==
    { NoLinks, [github |-> GithubUrl], [website |-> SiteUrl, apk |-> <<>>] }
        \cup { f \in [DOMAIN EmptyLinks -> { <<>>, PlayUrl, AppUrl, SiteUrl, GithubUrl, ApkUrl }] :
                    \A k \in DOMAIN f : f[k] \in { <<>>, CanonicalLinks[k], GithubUrl } }

BadgeRecords ==
    { [Base EXCEPT !.links = li, !.theme_color = th, !.long_description = lo] :
        li \in BadgeLinks, th \in ThemeColors,
        lo \in { <<>>, <<"T","r","a","c","k","s"," ","o","r","d","e","r","s",".">> } }

InitLinks ==
    /\ p \in BadgeRecords
    /\ files = {}
    /\ block = <<>> /\ edit = NoEdit /\ q = <<>> /\ pc = "start"
    /\ IdleAll /\ IdleSlug /\ IdleSession

SpecLinks == InitLinks /\ [][Next]_vars

\* the keys of the record's links that hold a non-empty value, in the
\* order playStore, appStore, website, github, apk
LinkedKeys(proj) == SelectSeq(LinkKeys, LAMBDA k : LinkGet(proj.links, k) # <<>>)

\* the colour of the website badge: theme_color without leading hashes,
\* 000000 when theme_color is empty
WebsiteColor(proj) ==
    IF proj.theme_color = <<>> THEN <<"0","0","0","0","0","0">>
    ELSE SubSeq(proj.theme_color,
                Min({ i \in 1..(Len(proj.theme_color) + 1) :
                        i > Len(proj.theme_color) \/ proj.theme_color[i] # "#" }),
                Len(proj.theme_color))

\* how the badge of a key begins: the anchor with the key's URL, then the
\* shield image with the key's label and colour
BadgeHead(proj, key) ==
    <<"<","a"," ","h","r","e","f","=","\"">> \o proj.links[key] \o <<"\"",">","<","i","m","g"," ","s","r","c","=","\"","h","t","t","p","s",":","/","/","i","m","g",".","s","h","i","e","l","d","s",".","i","o","/","b","a","d","g","e","/">>
        \o (CASE key = "playStore" -> <<"P","l","a","y","_","S","t","o","r","e","-","4","1","4","1","4","1","?">>
              [] key = "appStore" -> <<"A","p","p","_","S","t","o","r","e","-","0","D","9","6","F","6","?">>
              [] key = "website" -> <<"W","e","b","s","i","t","e","-">> \o WebsiteColor(proj) \o <<"?">>
              [] key = "github" -> <<"G","i","t","H","u","b","-","1","8","1","7","1","7","?">>
              [] key = "apk" -> <<"A","P","K","-","3","D","D","C","8","4","?">>)

\* the places of the block where an anchor opens, in ascending order
AnchorsOf(t) ==
    LET at == { i \in 1..Len(t) : StartsAt(t, i, <<"<","a"," ","h","r","e","f","=","\"">>) }
    IN  [n \in 1..Cardinality(at) |->
            CHOOSE i \in at : Cardinality({ j \in at : j < i }) = n - 1]

\* C21: the block of a record holds one badge for each link key with a
\* non-empty value and no other anchor; the badges stand in the order
\* playStore, appStore, website, github, apk; each anchor carries its key's
\* URL and the shield of that key; the website shield is coloured by
\* theme_color without its leading hashes (000000 when theme_color is
\* empty); the paragraph of badges is written only if there is a badge.
C21_BadgesAreTheNonEmptyLinks ==
    (pc \in { "generated", "parsed" })
    => LET keys == LinkedKeys(p)
           anchors == AnchorsOf(block)
       IN  /\ Len(anchors) = Len(keys)
           /\ \A n \in 1..Len(keys) :
                 /\ StartsAt(block, anchors[n], BadgeHead(p, keys[n]))
                 /\ StartsAt(block, anchors[n] - 3, <<"\n"," "," ">>)
           /\ (keys # <<>>) <=> Contains(block, <<"<","p",">","\n"," "," ","<","a"," ","h","r","e","f","=">>)
           /\ (keys = <<>>) => ~Contains(block, <<"i","m","g",".","s","h","i","e","l","d","s",".","i","o">>)

C21_Witness ==
    /\ pc = "generated"
    /\ p.links = [CanonicalLinks EXCEPT !["appStore"] = <<>>]
    /\ p.theme_color = <<"#","f","f","5","7","2","2">>
    /\ Len(AnchorsOf(block)) = 4
    /\ Contains(block, <<"/","b","a","d","g","e","/","W","e","b","s","i","t","e","-","f","f","5","7","2","2","?","s","t","y","l","e">>)

----------------------------------------------------------------------------
(* A collection whose titles differ, exported with its table of contents *)

TocRecords ==
    { Base,
      [Base EXCEPT !.title = <<"W","i","-","F","i"," ","T","o","o","l">>, !.id = <<"w","i","-","f","i","-","t","o","o","l">>,
                   !.categories = << <<"G","a","m","e">>, <<"I","o","T">> >>],
      [Base EXCEPT !.title = <<>>, !.id = <<>>, !.categories = << <<"G","a","m","e">> >>],
      [Base EXCEPT !.title = <<"M","y"," ","A","p","p"," ","2">>, !.id = <<"m","y","-","a","p","p","-","2">>,
                   !.categories = << <<"M","o","b","i","l","e"," ","A","p","p">> >>],
      [Base EXCEPT !.title = <<"N","o","t","e","s"," ","#","#"," ","D","r","a","f","t">>, !.id = <<"n","o","t","e","s","-","-","d","r","a","f","t">>],
      [Base EXCEPT !.title = <<"N","o","t","e","s"," ","#","#"," ","D","r","a","f","t">>, !.id = <<"n","o","t","e","s","-","-","d","r","a","f","t">>,
                   !.logo_url = <<"h","t","t","p","s",":","/","/","c","d","n",".","e","x","a","m","p","l","e",".","c","o","m","/","l","o","g","o",".","s","v","g">>] }

InitToc ==
    /\ projects \in SeqsUpTo(TocRecords, MaxProjects)
    /\ today = <<>> /\ content = <<>> /\ parsed = <<>> /\ pcAll = "start"
    /\ IdleProject /\ IdleSlug /\ IdleSession

SpecToc == InitToc /\ [][NextAll]_vars

\* the title a row shows: the record's title, Project i for a record
\* without title
ShownTitle(proj, i) == IF proj.title # <<>> THEN proj.title ELSE <<"P","r","o","j","e","c","t"," ">> \o IntToStr(i)

\* the row of record i: index, title linked to the slug of the title,
\* categories joined by comma and space or the dash placeholder
ExpectedTocRow(proj, i) ==
    <<"|"," ">> \o IntToStr(i) \o <<" ","|"," ","[">> \o ShownTitle(proj, i) \o <<"]","(","#">>
        \o Slug(ShownTitle(proj, i)) \o <<")"," ","|"," ">>
        \o (IF proj.categories = <<>> THEN <<"U+2014">> ELSE Join(proj.categories, <<","," ">>))
        \o <<" ","|">>

\* the places of the document where a numbered row of a table begins
TocRowsOf(t) ==
    LET at == { i \in 1..(Len(t) - 3) : StartsAt(t, i, <<"\n","|"," ">>) /\ t[i + 3] \in DigitSet }
    IN  [n \in 1..Cardinality(at) |->
            CHOOSE i \in at : Cardinality({ j \in at : j < i }) = n - 1]

\* C22: the exported document holds a table of contents if and only if the
\* collection is not empty; the table has one row per record, in the order
\* of the collection; row i holds the index i, the title linked to the slug
\* of the title (a record without title is shown as Project i) and the
\* categories joined by comma and space, or the dash placeholder; for every
\* record with a non-empty title the slug of the title is the id that
\* decoding the record's block gives.
C22_TocRowsAndSlugIsDecodedId ==
    (pcAll \in { "exported", "opened" })
    => LET rows == TocRowsOf(content)
       IN  /\ (projects # <<>>) <=> Contains(content, <<"|"," ","#"," ","|"," ","P","r","o","j","e","c","t"," ","|"," ","C","a","t","e","g","o","r","i","e","s"," ","|">>)
           /\ Len(rows) = Len(projects)
           /\ \A i \in 1..Len(projects) :
                 /\ StartsAt(content, rows[i], <<"\n">> \o ExpectedTocRow(projects[i], i) \o <<"\n">>)
                 /\ projects[i].title # <<>>
                    => LET decoded == parse_md(generate_project_md(projects[i], files))
                       IN  /\ Len(decoded) = 1
                           /\ decoded[1].id = Slug(projects[i].title)

----------------------------------------------------------------------------
(* The window: records are deleted and moved, and the window is closed *)

\* _delete_project(): nothing is selected, the selected row is no row of
\* the collection (IndexError), the user answers No, or the record is
\* deleted and the first record shown
DeleteProject ==
    /\ Running
    /\ \E yes \in BOOLEAN :
          LET i == window.selected_index
              rest == SubSeq(window.projects, 1, i) \o SubSeq(window.projects, i + 2, Len(window.projects))
          IN  IF i = None
              THEN window' = [window EXCEPT !.last = "nodelete", !.steps = @ + 1]
              ELSE IF i >= Len(window.projects)
              THEN window' = [window EXCEPT !.last = "error", !.steps = @ + 1]
              ELSE IF ~yes
              THEN window' = [window EXCEPT !.last = "nodelete", !.steps = @ + 1]
              ELSE window' = [window EXCEPT !.projects = rest,
                                     !.selected_index = IF rest # <<>> THEN 0 ELSE None,
                                     !.form = IF rest # <<>> THEN load_project(rest[1]) ELSE @,
                                     !.has_changes = TRUE,
                                     !.last = "delete", !.steps = @ + 1]
    /\ UNCHANGED <<p, files, block, edit, q, pc, projects, today, content, parsed, pcAll,
                   name, slug1, slug2, pcSlug, file_path, staged, files2, block2, ref, resolved>>

\* the collection with the records at rows i and j (counted from 0) swapped
Swapped(projs, i, j) ==
    [projs EXCEPT ![i + 1] = projs[j + 1], ![j + 1] = projs[i + 1]]

\* _move_up() without its last line, self.has_changes = True
MoveUpUnflagged ==
    /\ Running
    /\ LET i == window.selected_index
           saved == save_current(window, files)
       IN  IF i = None \/ i = 0
           THEN window' = [window EXCEPT !.last = "nomove", !.steps = @ + 1]
           ELSE IF i >= Len(window.projects)
           THEN window' = [window EXCEPT !.last = "error", !.steps = @ + 1]
           ELSE window' = [window EXCEPT !.projects = Swapped(saved, i, i - 1),
                                  !.selected_index = i - 1,
                                  !.last = "moved", !.steps = @ + 1]
    /\ UNCHANGED <<p, files, block, edit, q, pc, projects, today, content, parsed, pcAll,
                   name, slug1, slug2, pcSlug, file_path, staged, files2, block2, ref, resolved>>

\* _move_up(): the window afterwards.  Nothing to move, the selected row is
\* no row of the collection (IndexError), or the editor is saved and the
\* record changes place with the one above
move_up(a, fs) ==
    LET i == a.selected_index
        saved == save_current(a, fs)
    IN  IF i = None \/ i = 0
        THEN [a EXCEPT !.last = "nomove"]
        ELSE IF i >= Len(a.projects)
        THEN [a EXCEPT !.last = "error"]
        ELSE [a EXCEPT !.projects = Swapped(saved, i, i - 1),
                       !.selected_index = i - 1,
                       !.has_changes = TRUE,
                       !.last = "moved"]

\* _move_down() leaving self.selected_index as it was
move_down_keeping_row(a, fs) ==
    LET i == a.selected_index
        saved == save_current(a, fs)
    IN  IF i = None \/ i >= Len(a.projects) - 1
        THEN [a EXCEPT !.last = "nomove"]
        ELSE [a EXCEPT !.projects = Swapped(saved, i, i + 1),
                       !.has_changes = TRUE,
                       !.last = "moved"]

\* _move_down(): the window afterwards.  Nothing to move, or the editor is
\* saved and the record changes place with the one below
move_down(a, fs) ==
    LET i == a.selected_index
        saved == save_current(a, fs)
    IN  IF i = None \/ i >= Len(a.projects) - 1
        THEN [a EXCEPT !.last = "nomove"]
        ELSE [a EXCEPT !.projects = Swapped(saved, i, i + 1),
                       !.selected_index = i + 1,
                       !.has_changes = TRUE,
                       !.last = "moved"]

\* the Move up button
MoveUp ==
    /\ Running
    /\ window' = [move_up(window, files) EXCEPT !.steps = @ + 1]
    /\ UNCHANGED <<p, files, block, edit, q, pc, projects, today, content, parsed, pcAll,
                   name, slug1, slug2, pcSlug, file_path, staged, files2, block2, ref, resolved>>

\* the Move down button
MoveDown ==
    /\ Running
    /\ window' = [move_down(window, files) EXCEPT !.steps = @ + 1]
    /\ UNCHANGED <<p, files, block, edit, q, pc, projects, today, content, parsed, pcAll,
                   name, slug1, slug2, pcSlug, file_path, staged, files2, block2, ref, resolved>>

\* a key is released in an entry of the editor and leaves its text as it
\* was (an arrow key, the s of Ctrl-s); _on_change(event)
KeyRelease ==
    /\ Running
    /\ window' = [window EXCEPT !.has_changes = TRUE, !.last = "key", !.steps = @ + 1]
    /\ UNCHANGED <<p, files, block, edit, q, pc, projects, today, content, parsed, pcAll,
                   name, slug1, slug2, pcSlug, file_path, staged, files2, block2, ref, resolved>>

\* _on_close(): with unsaved changes the user is asked; Cancel keeps the
\* window, Yes exports and then destroys it, No destroys it
Close ==
    /\ Running
    /\ \E r \in { "yes", "no", "cancel" } :
          IF window.has_changes /\ r = "cancel"
          THEN /\ window' = [window EXCEPT !.last = "stay", !.steps = @ + 1]
               /\ UNCHANGED <<file_path, content, today, staged>>
          ELSE IF window.has_changes /\ r = "yes"
          THEN Export(TRUE)
          ELSE /\ window' = [window EXCEPT !.destroyed = TRUE, !.last = "close", !.steps = @ + 1]
               /\ UNCHANGED <<file_path, content, today, staged>>
    /\ UNCHANGED <<p, files, block, edit, q, pc, projects, parsed, pcAll,
                   name, slug1, slug2, pcSlug, files2, block2, ref, resolved>>

\* the window as it is constructed, or after Add Project was used twice
InitDesk ==
    /\ window \in { NewApp, add_project(add_project(NewApp, {}), {}) }
    /\ files = {}
    /\ file_path = <<>> /\ staged = {}
    /\ files2 = {} /\ block2 = <<>> /\ ref = <<>> /\ resolved = <<>>
    /\ p = Project /\ block = <<>> /\ edit = NoEdit /\ q = <<>> /\ pc = "idle"
    /\ IdleAll /\ IdleSlug

NextDesk ==
    \/ AddProject \/ SelectProject \/ TypeTitle \/ KeyRelease
    \/ DeleteProject \/ MoveUp \/ MoveDown
    \/ OpenFile \/ ExportFile \/ Close

SpecDesk == InitDesk /\ [][NextDesk]_vars

----------------------------------------------------------------------------
(* Properties of the window *)

\* C23: the selected row is None or a row of the collection, and neither
\* Delete nor Move up or down indexes outside the collection.
C23_SelectedIndexInRange ==
    /\ \/ window.selected_index = None
       \/ 0 <= window.selected_index /\ window.selected_index < Len(window.projects)
    /\ window.last # "error"

\* C24: when the user answers Yes to Save before closing, the window is
\* destroyed only if the document was written; after a cancelled save
\* dialog or a failed write the window is still there, with its collection.
C24_DestroyedOnlyAfterWritten ==
    window.last \in { "save", "exportfail" } => ~window.destroyed

\* C25: Open does not discard unsaved changes.  The handler never asks
\* about them, so whenever a document is opened while has_changes is true
\* the collection is kept and has_changes stays true.
C25_OpenKeepsUnsavedChanges ==
    [][(window.has_changes /\ window'.last = "open" /\ window'.steps = window.steps + 1)
        => (window'.projects = window.projects /\ window'.has_changes)]_vars

\* C26: no two records of the collection have the same id.
C26_IdsAreUnique ==
    \A i, j \in 1..Len(window.projects) :
        i # j => window.projects[i].id # window.projects[j].id

\* C27 (as stated): has_changes is true exactly if the collection or a
\* field of the editor was changed since the last successful Open or
\* Export: each handler leaves has_changes false after a successful Open or
\* Export, true after Add Project, a confirmed Delete, a Move that moved or
\* a change of a field, and as it was otherwise.
C27_DirtyFlagExact ==
    [][window'.has_changes =
          IF window'.last \in { "open", "export" } THEN FALSE
          ELSE \/ window.has_changes
               \/ window'.last \in { "add", "delete", "moved" }
               \/ window'.last \in { "type", "key" } /\ window'.form # window.form]_vars

\* C27 (amended): the same, a change of a field being every event of the
\* editor that _on_change handles, whether or not the field holds another
\* value afterwards; a cancelled Delete, a cancelled or failed Export, a
\* cancelled or failed Open, a selection and a Move that did not move leave
\* has_changes as it was.
C27_DirtyFlagFollowsHandlers ==
    [][window'.has_changes =
          IF window'.last \in { "open", "export" } THEN FALSE
          ELSE \/ window.has_changes
               \/ window'.last \in { "add", "delete", "moved", "type", "key" }]_vars

C27_Witness ==
    /\ window.last = "key" /\ window.has_changes
    /\ content # <<>> /\ window.projects # <<>>

\* C28: an Export whose write raises leaves file_path, has_changes and the
\* collection as they were before the Export was asked for, and an Open
\* whose file cannot be read leaves the collection, file_path, the selected
\* row and has_changes as they were.
C28_FailureChangesNothing ==
    [][/\ window'.last = "exportfail" /\ window'.steps = window.steps + 1
          => /\ file_path' = file_path
             /\ window'.has_changes = window.has_changes
             /\ window'.projects = window.projects
       /\ window'.last = "openfail" /\ window'.steps = window.steps + 1
          => /\ file_path' = file_path
             /\ window'.has_changes = window.has_changes
             /\ window'.projects = window.projects
             /\ window'.selected_index = window.selected_index]_vars

\* after is before with the rows i and j (counted from 0) exchanged: the
\* same length, the same records as often, every other row in its place
Exchanged(before, after, i, j) ==
    /\ Len(after) = Len(before)
    /\ after[i + 1] = before[j + 1] /\ after[j + 1] = before[i + 1]
    /\ \A k \in 1..Len(before) : k \notin { i + 1, j + 1 } => after[k] = before[k]
    /\ \A k \in 1..Len(before) :
          Cardinality({ m \in 1..Len(after) : after[m] = before[k] })
              = Cardinality({ m \in 1..Len(before) : before[m] = before[k] })

\* what Move up and Move down make of the collection from, and of the
\* selected row
Moves(from) ==
    LET i == window.selected_index
        n == Len(window.projects)
        up == move_up(window, files)
        down == move_down(window, files)
    IN  /\ IF i # None /\ 0 < i /\ i < n
           THEN /\ Exchanged(from, up.projects, i, i - 1)
                /\ up.selected_index = i - 1
                /\ move_down(up, files).projects = from
                /\ move_down(up, files).selected_index = i
           ELSE up.projects = window.projects /\ up.selected_index = i
        /\ IF i # None /\ i < n - 1
           THEN /\ Exchanged(from, down.projects, i, i + 1)
                /\ down.selected_index = i + 1
           ELSE down.projects = window.projects /\ down.selected_index = i

\* C30 (as stated): Move up and Move down only permute the collection: the
\* selected record changes place with its neighbour, the length and the
\* records stay, the selection follows the record; at the first or last row
\* nothing changes; Move up and then Move down give the collection and the
\* selection as they were.
C30_MovesOnlyPermute == Moves(window.projects)

\* C30 (amended): the same of the collection in which the fields of the
\* editor have been saved into the selected record, which both handlers do
\* first.
C30_MovesSaveThenPermute == Moves(save_current(window, files))

C30_Witness ==
    /\ window.last = "moved" /\ Len(window.projects) >= 2
    /\ window.selected_index = Len(window.projects) - 1
    /\ window.projects[window.selected_index + 1].title = <<"M","y"," ","A","p","p">>
    /\ window.projects[1].title # <<"M","y"," ","A","p","p">>

----------------------------------------------------------------------------
(* One record exported and reopened, and exported and reopened again *)

\* records as the editor leaves them, and records whose ID field was
\* cleared or typed by hand
TwiceRecords ==
    TextRecords \cup LinkRecords \cup StyleRecords \cup ImageRecords \cup ShotStyleRecords
        \cup { [Base EXCEPT !.id = id, !.screenshot_layout = la, !.screenshot_size = sz,
                            !.banner_image = ba,
                            !.screenshots = sh, !.screenshots_local_paths = sh] :
                  id \in { <<>>, <<"c","u","s","t","o","m">> }, la \in Layouts, sz \in { 64, 200 },
                  ba \in { <<>>, LocalBanner },
                  sh \in { <<>>, << <<"/","h","o","m","e","/","m","e","/","s","h","o","t","s","/","h","o","m","e",".","p","n","g">> >> } }

InitTwice ==
    /\ p \in TwiceRecords
    /\ files \in SUBSET LocalFilesOf(p)
    /\ block = <<>> /\ edit = NoEdit /\ q = <<>> /\ pc = "start"
    /\ IdleAll /\ IdleSlug /\ IdleSession

\* _generate_project_md(q) for the record that was decoded.  The files
\* that existed still exist; the copies images/{id}/... that the decoded
\* logo and banner name exist if the images were copied and the program
\* runs in the folder of the document
EncodeDecoded ==
    /\ pc = "parsed" /\ q # <<>>
    /\ \E copies \in SUBSET { r \in { q[1].logo_url, q[1].banner_image } :
                                StartsAt(r, 1, <<"i","m","a","g","e","s","/">>) } :
          /\ files2' = files \cup copies
          /\ block2' = generate_project_md(q[1], files \cup copies)
    /\ pc' = "encoded again"
    /\ UNCHANGED <<p, files, block, edit, q, projects, today, content, parsed, pcAll,
                   name, slug1, slug2, pcSlug, window, file_path, staged, ref, resolved>>

\* _parse_md(block2)
DecodeAgain ==
    /\ pc = "encoded again"
    /\ parsed' = parse_md(block2)
    /\ pc' = "decoded again"
    /\ UNCHANGED <<p, files, block, edit, q, projects, today, content, pcAll,
                   name, slug1, slug2, pcSlug, window, file_path, staged, files2, block2, ref, resolved>>

NextTwice == GenerateProject \/ ParseBlock \/ EncodeDecoded \/ DecodeAgain

SpecTwice == InitTwice /\ [][NextTwice]_vars

\* C29: a record that was decoded from an encoded block comes back from
\* encode and decode with every field as it was: title, id, categories,
\* descriptions, technologies, features, links, screenshots, banner, logo,
\* border, layout and size.
C29_DecodeAfterEncodeIsIdempotent ==
    (pc = "decoded again")
    => /\ Len(parsed) = 1
       /\ parsed[1].title = q[1].title
       /\ parsed[1].id = q[1].id
       /\ parsed[1].categories = q[1].categories
       /\ parsed[1].short_description = q[1].short_description
       /\ parsed[1].long_description = q[1].long_description
       /\ parsed[1].technologies = q[1].technologies
       /\ parsed[1].features = q[1].features
       /\ parsed[1].links = q[1].links
       /\ parsed[1].screenshots = q[1].screenshots
       /\ parsed[1].banner_image = q[1].banner_image
       /\ parsed[1].logo_url = q[1].logo_url
       /\ parsed[1].show_border = q[1].show_border
       /\ parsed[1].border_style = q[1].border_style
       /\ parsed[1].screenshot_layout = q[1].screenshot_layout
       /\ parsed[1].screenshot_size = q[1].screenshot_size

====
